---- MODULE Spec2Model ----
(***************************************************************************)
(* A model of the distributed-training tests of test_c10d_common.py: the   *)
(* test bodies are translated from the source; the services they call      *)
(* (the DistributedDataParallel reducer, activation checkpointing in the   *)
(* autograd engine, the process groups' sequence numbers and the           *)
(* not-in-group warnings) are modelled next to them.                       *)
(*                                                                         *)
(* Tensors are modelled as exact rationals (records [n, d], d > 0, in      *)
(* lowest terms) and every layer has width 1, so that a gradient is one    *)
(* number per parameter and equality of gradients is exact.                *)
(***************************************************************************)
EXTENDS Integers, Sequences, FiniteSets, TLC

(***************************************************************************)
(* Exact rational arithmetic.                                              *)
(***************************************************************************)
Abs(x) == IF x < 0 THEN -x ELSE x

RECURSIVE GCD(_, _)
GCD(a, b) == IF b = 0 THEN a ELSE GCD(b, a % b)

Rat(n, d) ==
    LET g == GCD(Abs(n), Abs(d))
        s == IF d < 0 THEN -1 ELSE 1
    IN  [n |-> (s * n) \div g, d |-> (s * d) \div g]

RInt(k) == [n |-> k, d |-> 1]
RZero == RInt(0)
RAdd(a, b) == Rat(a.n * b.d + b.n * a.d, a.d * b.d)
RNeg(a) == [n |-> -a.n, d |-> a.d]
RSub(a, b) == RAdd(a, RNeg(b))
RMul(a, b) == Rat(a.n * b.n, a.d * b.d)
RDivInt(a, k) == Rat(a.n, a.d * k)
RPos(a) == a.n > 0

RECURSIVE RSeqSum(_)
RSeqSum(s) == IF s = <<>> THEN RZero ELSE RAdd(Head(s), RSeqSum(Tail(s)))

\* param.grad of a parameter whose gradient was never computed (None); no
\* rational has denominator 0.
None == [n |-> 0, d |-> 0]

(***************************************************************************)
(* Bounds of the model.                                                    *)
(***************************************************************************)
\* len(devices) in _test_ddp_with_process_group is 1 .. MaxDevices
MaxDevices == 2

(***************************************************************************)
(* State.                                                                  *)
(***************************************************************************)
VARIABLES
    \* --- _test_ddp_with_process_group, one entry per rank ---
    local_batch_size,   \* 1 if devices is None else len(devices)
    input,              \* input[r]: the global batch held by rank r (rows)
    target,             \* target[r]: the global targets held by rank r
    randperm,           \* randperm[it]: torch.randperm under seed 1337 + it
    modelParams,        \* modelParams[r]: parameters of the unwrapped Net
    ddpParams,          \* ddpParams[r]: parameters of the DDP-wrapped copy
    modelGrad,          \* modelGrad[r]: param.grad of the unwrapped Net
    ddpGrad,            \* ddpGrad[r]: param.grad of the DDP-wrapped copy
    bucketSent,         \* bucketSent[it][r]: rank r's allreduce input in iteration it
    iteration,          \* iteration[r]: the loop variable of line 731
    ddpPc               \* ddpPc[r]: where rank r is in the test body

ddpVars == <<local_batch_size, input, target, randperm, modelParams, ddpParams,
             modelGrad, ddpGrad, bucketSent, iteration, ddpPc>>

VARIABLES
    \* --- _test_ddp_checkpointing, one entry per rank where it says [r] ---
    ckSite,         \* the call of _test_ddp_checkpointing that is running
    ckCase,         \* its arguments
    ckParams,       \* the parameters of input_model (never updated)
    ckSeed,         \* what decides the random input and target tensors
    ckModelGrad,    \* ckModelGrad[r]: param.grad of the unwrapped copy
    ckModelCount,   \* ckModelCount[r]: self.count of the unwrapped copy
    ckDdp,          \* ckDdp[r]: the DDP wrapper, its gradients and reducer
    ckDdpCount,     \* ckDdpCount[r]: self.count of the wrapped copy
    ckGraph,        \* ckGraph[r]: the layers of the last forward of ddp_model
    ckEvents,       \* ckEvents[r]: what backward() has still to run
    ckSent,         \* ckSent[i][r]: what rank r gave the allreduce of iteration i
    ckIter,         \* ckIter[r]: the loop variable i of line 368
    ckPc            \* ckPc[r]: where rank r is in the test body

ckVars == <<ckSite, ckCase, ckParams, ckSeed, ckModelGrad, ckModelCount,
            ckDdp, ckDdpCount, ckGraph, ckEvents, ckSent, ckIter, ckPc>>

VARIABLES
    \* --- AbstractCommTest: the sequence number tests ---
    seqTest,        \* the test that is running
    seqWorld,       \* self.world_size of the test class
    seqStore,       \* the sequence number the store holds for the group
    seqNum,         \* seqNum[r]: the sequence number of the group on rank r
    seqInitial,     \* seqInitial[r]: initial_num
    seqI,           \* seqI[r]: the all_reduce calls of the loop that returned
    seqIssued,      \* seqIssued[r]: the all_reduce calls rank r has issued
    seqGather,      \* seqGather[k][r]: what rank r gave the k-th all_gather_object
    seqPc           \* seqPc[r]: where rank r is in the test body

seqVars == <<seqTest, seqWorld, seqStore, seqNum, seqInitial, seqI, seqIssued,
             seqGather, seqPc>>

VARIABLES
    \* --- AbstractCommTest._test_warn_not_in_group ---
    warnWorld,      \* self.world_size of the test class
    warnCall,       \* warnCall[r]: the calls rank r has made
    warnJoined,     \* warnJoined[j]: the ranks that entered the j-th collective
    warnings,       \* warnings[r][j]: the warnings of rank r's j-th call
    warnPc          \* warnPc[r]: where rank r is in the test body

warnVars == <<warnWorld, warnCall, warnJoined, warnings, warnPc>>

VARIABLES
    \* --- DummyProcessGroup.barrier, one entry per rank where it says [r] ---
    barSize,          \* self.size() of the group
    barCalls,         \* the barrier calls each process makes
    barStore,         \* the value of the key in the default store
    barWorkerCount,   \* worker_count on rank 0
    barAdds,          \* barAdds[r]: the store.add(key, 1) calls rank r has made
    barReturned,      \* barReturned[r]: the barrier calls that returned on rank r
    barPc             \* barPc[r]: where rank r is

barVars == <<barSize, barCalls, barStore, barWorkerCount, barAdds, barReturned, barPc>>

VARIABLES
    \* --- PythonProcessGroupExtensionTest, one entry per process where it says [r] ---
    regTest,      \* the test that is running
    regWorld,     \* self.world_size
    regName,      \* the name given to register_backend
    regAttrs,     \* regAttrs[r]: the string attributes of class Backend
    regPlugins,   \* regPlugins[r]: Backend._plugins
    regPg,        \* regPg[r]: the default process group, NoGroup when there is none
    regCreated,   \* regCreated[r]: the calls of the registered function, with their arguments
    regServed,    \* regServed[r]: the collectives issued and the object that served each
    regStore,     \* the barrier key of the default store
    regPc         \* regPc[r]: the step of the test rank r is at

regVars == <<regTest, regWorld, regName, regAttrs, regPlugins, regPg, regCreated, regServed, regStore, regPc>>

VARIABLES
    \* --- The operations of DummyProcessGroup called on the tensors of the ranks ---
    opSize,     \* the number of ranks of the group
    opStart,    \* the tensor each rank started with
    opTensor,   \* the tensor of each rank, changed in place
    opCount,    \* per rank, how many times each in-place operation was called on its tensor
    opLast      \* per rank, the arguments and the outputs of its last allgather or reduce_scatter

opVars == <<opSize, opStart, opTensor, opCount, opLast>>

VARIABLES
    \* --- dist._compute_bucket_assignment_by_size called on a list of tensors ---
    bktTensors,   \* the tensors given, each with its dtype and its number of elements
    bktLimits,    \* the bucket size limits given, in bytes
    bktResult,    \* what the call returned: the buckets and the size limit of each
    bktPc         \* "call" before the call and "returned" after it

bktVars == <<bktTensors, bktLimits, bktResult, bktPc>>

VARIABLES
    \* --- gpus_for_rank(world_size) on a node with some visible devices ---
    gpuDeviceCount,   \* torch.cuda.device_count()
    gpuWorldSize,     \* the argument world_size
    gpuRank,          \* the loop variable rank: the next rank to give its devices
    gpuLists,         \* the local list gpus_for_rank, one list of devices per rank so far
    gpuPc             \* "loop" in the for loop, "returned" after the return

gpuVars == <<gpuDeviceCount, gpuWorldSize, gpuRank, gpuLists, gpuPc>>

VARIABLES
    \* --- _test_default_store_timeout: the main thread and the worker thread it starts per init method ---
    toPlatform,   \* sys.platform
    toMethod,     \* the position of the loop over _init_methods()
    toC2p,        \* the list c2p shared by the two threads
    toWorker,     \* where the worker thread is
    toDue,        \* the time at which the call the worker is in ends
    toTik,        \* tik, the time before store.get
    toTok,        \* tok, the time after store.get
    toGot,        \* what store.get raised in the worker
    toEscaped,    \* the exception that escaped the try body of the worker
    toMain,       \* where the main thread is
    toRaised,     \* the exception the main thread raised
    toClock       \* the time in seconds since t.start()

toVars == <<toPlatform, toMethod, toC2p, toWorker, toDue, toTik, toTok, toGot, toEscaped, toMain, toRaised, toClock>>

VARIABLES
    \* --- test_debug_level: TORCH_DISTRIBUTED_DEBUG and the debug level of the process ---
    dbgEnviron,   \* os.environ: whether TORCH_DISTRIBUTED_DEBUG is set, and its value
    dbgLevel,     \* dist.get_debug_level()
    dbgCall       \* the last call of dist.set_debug_level_from_env(): the variable it read and what it raised

dbgVars == <<dbgEnviron, dbgLevel, dbgCall>>

VARIABLES
    \* --- test_invalid_powerSGD_state: the construction of a PowerSGDState ---
    psgArgs,     \* start_powerSGD_iter, use_error_feedback, warm_start and matrix_approximation_rank of the call
    psgInTest,   \* whether the call is one of the loop of test_invalid_powerSGD_state
    psgRaised,   \* what the construction raised
    psgState,    \* the PowerSGDState constructed
    psgPc        \* "loop" before the turn of the loop, then "skipped", "passed" or "failed"; "called" after a call outside the test

psgVars == <<psgArgs, psgInTest, psgRaised, psgState, psgPc>>

VARIABLES
    \* --- CommTensor.__torch_dispatch__: operators dispatched with CommTensors among their arguments ---
    ctCalls,       \* the dispatches the process makes, each with its mode, func, args and kwargs
    ctCall,        \* the position of the dispatch in hand
    ctPos,         \* the position in the leaves of args and kwargs that unwrap has reached
    ctUnwrapped,   \* the leaves unwrap has returned in the dispatch in hand
    ctDone,        \* the work handles whose collective has completed
    ctLog,         \* what has happened, in order: wait called, wait returned, operator run
    ctGraph,       \* the nodes of the graph of the tracer
    ctPc,          \* where the process is
    ctValues       \* the values the test compares: y of the eager call and yy of the traced function

ctVars == <<ctCalls, ctCall, ctPos, ctUnwrapped, ctDone, ctLog, ctGraph, ctPc, ctValues>>

VARIABLES
    \* --- tools/stats/export_test_times.py: main() writes the sha of the generated-stats branch into a file ---
    exFile,   \* the characters of test-infra_generated-stats_branch_sha.txt
    exOut,    \* the output of git ls-remote, a sequence of characters
    exPc,     \* where main() is: start, opened, got, written, done or raised
    exBuf     \* what was written to the file object and not yet flushed

exVars == <<exFile, exOut, exPc, exBuf>>

VARIABLES
    \* --- test_benchmark_fusion.py, test_register_spills: Scheduler.benchmark_fused_nodes is replaced by new_benchmark_fn while the function is compiled ---
    bfPatched,    \* whether Scheduler.benchmark_fused_nodes is new_benchmark_fn
    bfOldCalls,   \* how many times the original benchmark_fused_nodes was called
    bfEntered,    \* bfOldCalls when the call of new_benchmark_fn that is running was made
    bfMs,         \* the local ms of the call of new_benchmark_fn that is running
    bfLog,        \* the calls of new_benchmark_fn that returned: what the original gave, how often it was called, what was returned
    bfPc          \* where the process is: before the with block, in it, in new_benchmark_fn before or after the original, after the block

bfVars == <<bfPatched, bfOldCalls, bfEntered, bfMs, bfLog, bfPc>>

vars == <<ddpVars,
          ckVars,
          seqVars,
          warnVars,
          barVars,
          regVars,
          opVars,
          bktVars,
          gpuVars,
          toVars,
          dbgVars,
          psgVars,
          ctVars,
          exVars,
          bfVars>>

\* The variables of a test that is not running keep these values.
DdpIdle ==
    /\ local_batch_size = 0 /\ input = <<>> /\ target = <<>> /\ randperm = <<>>
    /\ modelParams = <<>> /\ ddpParams = <<>> /\ modelGrad = <<>> /\ ddpGrad = <<>>
    /\ bucketSent = <<>> /\ iteration = <<>> /\ ddpPc = <<>>
CkIdle ==
    /\ ckSite = "" /\ ckCase = <<>> /\ ckParams = <<>> /\ ckSeed = 0
    /\ ckModelGrad = <<>> /\ ckModelCount = <<>> /\ ckDdp = <<>>
    /\ ckDdpCount = <<>> /\ ckGraph = <<>> /\ ckEvents = <<>> /\ ckSent = <<>>
    /\ ckIter = <<>> /\ ckPc = <<>>

SeqIdle ==
    /\ seqTest = "" /\ seqWorld = 0 /\ seqStore = 0 /\ seqNum = <<>>
    /\ seqInitial = <<>> /\ seqI = <<>> /\ seqIssued = <<>> /\ seqGather = <<>>
    /\ seqPc = <<>>
WarnIdle ==
    /\ warnWorld = 0 /\ warnCall = <<>> /\ warnJoined = <<>> /\ warnings = <<>>
    /\ warnPc = <<>>

BarIdle ==
    /\ barSize = <<>>
    /\ barCalls = <<>>
    /\ barStore = <<>>
    /\ barWorkerCount = <<>>
    /\ barAdds = <<>>
    /\ barReturned = <<>>
    /\ barPc = <<>>

RegIdle ==
    /\ regTest = <<>>
    /\ regWorld = <<>>
    /\ regName = <<>>
    /\ regAttrs = <<>>
    /\ regPlugins = <<>>
    /\ regPg = <<>>
    /\ regCreated = <<>>
    /\ regServed = <<>>
    /\ regStore = <<>>
    /\ regPc = <<>>

OpIdle ==
    /\ opSize = <<>>
    /\ opStart = <<>>
    /\ opTensor = <<>>
    /\ opCount = <<>>
    /\ opLast = <<>>

BktIdle ==
    /\ bktTensors = <<>>
    /\ bktLimits = <<>>
    /\ bktResult = <<>>
    /\ bktPc = <<>>

GpuIdle ==
    /\ gpuDeviceCount = <<>>
    /\ gpuWorldSize = <<>>
    /\ gpuRank = <<>>
    /\ gpuLists = <<>>
    /\ gpuPc = <<>>

ToIdle ==
    /\ toPlatform = <<>>
    /\ toMethod = <<>>
    /\ toC2p = <<>>
    /\ toWorker = <<>>
    /\ toDue = <<>>
    /\ toTik = <<>>
    /\ toTok = <<>>
    /\ toGot = <<>>
    /\ toEscaped = <<>>
    /\ toMain = <<>>
    /\ toRaised = <<>>
    /\ toClock = <<>>

DbgIdle ==
    /\ dbgEnviron = <<>>
    /\ dbgLevel = <<>>
    /\ dbgCall = <<>>

PsgIdle ==
    /\ psgArgs = <<>>
    /\ psgInTest = <<>>
    /\ psgRaised = <<>>
    /\ psgState = <<>>
    /\ psgPc = <<>>

CtIdle ==
    /\ ctCalls = <<>>
    /\ ctCall = <<>>
    /\ ctPos = <<>>
    /\ ctUnwrapped = <<>>
    /\ ctDone = <<>>
    /\ ctLog = <<>>
    /\ ctGraph = <<>>
    /\ ctPc = <<>>
    /\ ctValues = <<>>

ExIdle ==
    /\ exFile = <<>>
    /\ exOut = <<>>
    /\ exPc = <<>>
    /\ exBuf = <<>>

BfIdle ==
    /\ bfPatched = <<>>
    /\ bfOldCalls = <<>>
    /\ bfEntered = <<>>
    /\ bfMs = <<>>
    /\ bfLog = <<>>
    /\ bfPc = <<>>

\* The variables of the other tests, which a test leaves alone.
ddpOthers == <<ckVars, seqVars, warnVars, barVars, regVars, opVars, bktVars,
    gpuVars,
    toVars,
    dbgVars,
    psgVars,
    ctVars,
    exVars,
    bfVars>>
ckOthers == <<ddpVars, seqVars, warnVars, barVars, regVars, opVars, bktVars,
    gpuVars,
    toVars,
    dbgVars,
    psgVars,
    ctVars,
    exVars,
    bfVars>>
seqOthers == <<ddpVars, ckVars, warnVars, barVars, regVars, opVars, bktVars,
    gpuVars,
    toVars,
    dbgVars,
    psgVars,
    ctVars,
    exVars,
    bfVars>>
warnOthers == <<ddpVars, ckVars, seqVars, barVars, regVars, opVars, bktVars,
    gpuVars,
    toVars,
    dbgVars,
    psgVars,
    ctVars,
    exVars,
    bfVars>>
barOthers == <<ddpVars, ckVars, seqVars, warnVars, regVars, opVars, bktVars,
    gpuVars,
    toVars,
    dbgVars,
    psgVars,
    ctVars,
    exVars,
    bfVars>>
regOthers == <<ddpVars, ckVars, seqVars, warnVars, barVars, opVars, bktVars,
    gpuVars,
    toVars,
    dbgVars,
    psgVars,
    ctVars,
    exVars,
    bfVars>>
opOthers == <<ddpVars, ckVars, seqVars, warnVars, barVars,
    regVars,
    bktVars,
    gpuVars,
    toVars,
    dbgVars,
    psgVars,
    ctVars,
    exVars,
    bfVars>>
bktOthers == <<ddpVars, ckVars, seqVars, warnVars, barVars,
    regVars, opVars,
    gpuVars,
    toVars,
    dbgVars,
    psgVars,
    ctVars,
    exVars,
    bfVars>>
gpuOthers == <<ddpVars, ckVars, seqVars, warnVars, barVars,
    regVars, opVars, bktVars,
    toVars,
    dbgVars,
    psgVars,
    ctVars,
    exVars,
    bfVars>>
toOthers == <<ddpVars, ckVars, seqVars, warnVars, barVars,
    regVars, opVars, bktVars, gpuVars,
    dbgVars,
    psgVars,
    ctVars,
    exVars,
    bfVars>>
dbgOthers == <<ddpVars, ckVars, seqVars, warnVars, barVars,
    regVars, opVars, bktVars, gpuVars, toVars,
    psgVars,
    ctVars,
    exVars,
    bfVars>>
psgOthers == <<ddpVars, ckVars, seqVars, warnVars, barVars,
    regVars, opVars, bktVars, gpuVars, toVars,
    dbgVars,
    ctVars,
    exVars,
    bfVars>>
ctOthers == <<ddpVars, ckVars, seqVars, warnVars, barVars,
    regVars, opVars, bktVars, gpuVars, toVars,
    dbgVars, psgVars,
    exVars,
    bfVars>>
exOthers == <<ddpVars, ckVars, seqVars, warnVars, barVars,
    regVars, opVars, bktVars, gpuVars, toVars,
    dbgVars, psgVars, ctVars,
    bfVars>>
bfOthers == <<ddpVars, ckVars, seqVars, warnVars, barVars,
    regVars, opVars, bktVars, gpuVars, toVars,
    dbgVars, psgVars, ctVars, exVars>>

(***************************************************************************)
(* CommonDistributedDataParallelTest: _test_ddp_with_process_group.        *)
(***************************************************************************)
world_size == 2
Ranks == 0 .. (world_size - 1)

\* range(2) of the training loop
NumIterations == 2

global_batch_size(b) == world_size * b

\* Values torch.randn may give to an input entry, a target entry, and the
\* parameter vectors Net() may start from.
InputEntries == {0, 1}
Targets(n) ==
    {[i \in 1 .. n |-> 2 * ((i + k) % 2)] : k \in 0 .. 1} \cup {[i \in 1 .. n |-> 1]}
ParamInits == {<<RInt(1), RInt(1), RInt(1)>>, <<RInt(1), RInt(2), RInt(1)>>}

\* Permutations torch.randperm(n) may return: the rotations of 1 .. n.
Rotation(n, k) == [i \in 1 .. n |-> ((i - 1 + k) % n) + 1]
Randperms(n) == {Rotation(n, k) : k \in 0 .. (n - 1)}

Relu(a) == IF RPos(a) THEN a ELSE RZero

\* step_model: Net.forward, fc3(relu(fc2(relu(fc1(x))))) with every layer of
\* width 1 and without bias, F.mse_loss (mean over the rows given), and
\* backward. The result is the gradient of the loss for each of the three
\* parameters.
step_model(p, xs, ts) ==
    LET n == Len(xs)
        h1(i) == Relu(RMul(p[1], RInt(xs[i])))
        z2(i) == RMul(p[2], h1(i))
        h2(i) == Relu(z2(i))
        y(i)  == RMul(p[3], h2(i))
        dy(i) == RDivInt(RMul(RInt(2), RSub(y(i), RInt(ts[i]))), n)
        dh2(i) == RMul(dy(i), p[3])
        dz2(i) == IF RPos(z2(i)) THEN dh2(i) ELSE RZero
        dh1(i) == RMul(dz2(i), p[2])
        dz1(i) == IF RPos(RMul(p[1], RInt(xs[i]))) THEN dh1(i) ELSE RZero
    IN  << RSeqSum([i \in 1 .. n |-> RMul(dz1(i), RInt(xs[i]))]),
           RSeqSum([i \in 1 .. n |-> RMul(dz2(i), h1(i))]),
           RSeqSum([i \in 1 .. n |-> RMul(dy(i), h2(i))]) >>

\* input[rank * local_batch_size : (rank + 1) * local_batch_size], as the
\* 1-based row numbers of the slice.
ShardRowsFirstRankOnly(rank, b) == 1 .. b
ShardRows(rank, b) == (rank * b + 1) .. ((rank + 1) * b)

Shard(rows, rank, b) ==
    LET rs == ShardRows(rank, b)
        lo == CHOOSE k \in rs : \A j \in rs : k <= j
    IN  [i \in 1 .. Cardinality(rs) |-> rows[lo + i - 1]]

\* update_parameters: param -= param.grad for every parameter.
update_parameters(p, g) == [i \in 1 .. Len(p) |-> RSub(p[i], g[i])]

\* DistributedDataParallel's reducer: every rank divides its local gradient
\* by the number of ranks when it copies it into the bucket, and the
\* allreduce sums the buckets of all ranks.
BucketOf(g) == [i \in 1 .. Len(g) |-> RDivInt(g[i], world_size)]
AllreduceSum(sent) ==
    [i \in 1 .. 3 |-> RSeqSum([k \in 1 .. world_size |-> sent[k - 1][i]])]

\* param.grad = None for the three parameters
NoGrads == <<None, None, None>>

DdpInit ==
    /\ local_batch_size \in 1 .. MaxDevices
    /\ \E xs \in [1 .. global_batch_size(local_batch_size) -> InputEntries],
          ts \in Targets(global_batch_size(local_batch_size)) :
          \* every rank draws the tensors from the same default seed
          /\ input = [r \in Ranks |-> xs]
          /\ target = [r \in Ranks |-> ts]
    /\ randperm = [it \in 0 .. (NumIterations - 1) |-> <<>>]
    /\ \E p \in ParamInits :
          /\ modelParams = [r \in Ranks |-> p]
          \* DistributedDataParallel(copy.deepcopy(model))
          /\ ddpParams = [r \in Ranks |-> p]
    /\ modelGrad = [r \in Ranks |-> NoGrads]
    /\ ddpGrad = [r \in Ranks |-> NoGrads]
    /\ bucketSent = [it \in 0 .. (NumIterations - 1) |-> [r \in Ranks |-> <<>>]]
    /\ iteration = [r \in Ranks |-> 0]
    /\ ddpPc = [r \in Ranks |-> "step_model"]

\* line 733: step_model(model, input, target), single-process training on
\* the whole global batch.
StepModel(r) ==
    /\ ddpPc[r] = "step_model"
    /\ modelGrad' = [modelGrad EXCEPT ![r] = step_model(modelParams[r], input[r], target[r])]
    /\ ddpPc' = [ddpPc EXCEPT ![r] = "step_ddp_model"]
    /\ UNCHANGED <<local_batch_size, input, target, randperm, modelParams,
                   ddpParams, ddpGrad, bucketSent, iteration>>
    /\ UNCHANGED ddpOthers

\* lines 736-744: step_model(ddp_model, shard of input, shard of target).
\* The backward pass hands the local gradient to the reducer, which sends
\* the bucket to the allreduce.
StepDdpModel(r) ==
    /\ ddpPc[r] = "step_ddp_model"
    /\ LET b == local_batch_size
           g == step_model(ddpParams[r], Shard(input[r], r, b), Shard(target[r], r, b))
       IN  bucketSent' = [bucketSent EXCEPT ![iteration[r]][r] = BucketOf(g)]
    /\ ddpPc' = [ddpPc EXCEPT ![r] = "allreduce"]
    /\ UNCHANGED <<local_batch_size, input, target, randperm, modelParams,
                   ddpParams, modelGrad, ddpGrad, iteration>>
    /\ UNCHANGED ddpOthers

\* The end of loss.backward() on the DDP model: the allreduce completes when
\* every rank has sent its bucket, and the reducer writes the result to
\* param.grad.
FinalizeBackward(r) ==
    /\ ddpPc[r] = "allreduce"
    /\ \A k \in Ranks : bucketSent[iteration[r]][k] # <<>>
    /\ ddpGrad' = [ddpGrad EXCEPT ![r] = AllreduceSum(bucketSent[iteration[r]])]
    /\ ddpPc' = [ddpPc EXCEPT ![r] = "update_parameters"]
    /\ UNCHANGED <<local_batch_size, input, target, randperm, modelParams,
                   ddpParams, modelGrad, bucketSent, iteration>>
    /\ UNCHANGED ddpOthers

\* lines 747-748: update_parameters(model); update_parameters(ddp_model).
UpdateParameters(r) ==
    /\ ddpPc[r] = "update_parameters"
    /\ modelParams' = [modelParams EXCEPT ![r] = update_parameters(modelParams[r], modelGrad[r])]
    /\ ddpParams' = [ddpParams EXCEPT ![r] = update_parameters(ddpParams[r], ddpGrad[r])]
    /\ modelGrad' = [modelGrad EXCEPT ![r] = NoGrads]
    /\ ddpGrad' = [ddpGrad EXCEPT ![r] = NoGrads]
    /\ ddpPc' = [ddpPc EXCEPT ![r] = "assert"]
    /\ UNCHANGED <<local_batch_size, input, target, randperm, bucketSent, iteration>>
    /\ UNCHANGED ddpOthers

\* lines 749-753: the two assertEqual; a failed assertion ends the test.
ParametersEqual(r) ==
    /\ Len(modelParams[r]) = Len(ddpParams[r])
    /\ \A i \in 1 .. Len(modelParams[r]) : modelParams[r][i] = ddpParams[r][i]

AssertParameters(r) ==
    /\ ddpPc[r] = "assert"
    /\ ddpPc' = [ddpPc EXCEPT ![r] = IF ParametersEqual(r) THEN "shuffle" ELSE "failed"]
    /\ UNCHANGED <<local_batch_size, input, target, randperm, modelParams,
                   ddpParams, modelGrad, ddpGrad, bucketSent, iteration>>
    /\ UNCHANGED ddpOthers

\* lines 756-757: input = input[torch.randperm(global_batch_size)] under
\* torch.manual_seed(1337 + iteration), then the next iteration.
ShuffleInput(r) ==
    /\ ddpPc[r] = "shuffle"
    /\ \E perm \in Randperms(Len(input[r])) :
          \* the seed decides the permutation: the same on every rank
          /\ randperm[iteration[r]] # <<>> => perm = randperm[iteration[r]]
          /\ randperm' = [randperm EXCEPT ![iteration[r]] = perm]
          /\ input' = [input EXCEPT ![r] = [i \in 1 .. Len(input[r]) |-> input[r][perm[i]]]]
    /\ iteration' = [iteration EXCEPT ![r] = iteration[r] + 1]
    /\ ddpPc' = [ddpPc EXCEPT ![r] =
                    IF iteration[r] + 1 < NumIterations THEN "step_model" ELSE "done"]
    /\ UNCHANGED <<local_batch_size, target, modelParams, ddpParams,
                   modelGrad, ddpGrad, bucketSent>>
    /\ UNCHANGED ddpOthers

DdpNext ==
    \E r \in Ranks :
        \/ StepModel(r)
        \/ StepDdpModel(r)
        \/ FinalizeBackward(r)
        \/ UpdateParameters(r)
        \/ AssertParameters(r)
        \/ ShuffleInput(r)

\* The test runs alone in its processes.
DdpStart == DdpInit /\ CkIdle /\ SeqIdle /\ WarnIdle /\ BarIdle /\ RegIdle /\ OpIdle /\ BktIdle /\ GpuIdle /\ ToIdle /\ DbgIdle /\ PsgIdle /\ CtIdle /\ ExIdle /\ BfIdle
SpecDdp == DdpStart /\ [][DdpNext]_vars

\* C1: on every rank and in each of the 2 iterations, after both models
\* have taken their step and applied param -= param.grad, the two models
\* have the same number of parameters and corresponding parameters are
\* equal; before the update, the gradient DDP left on the rank equals the
\* full-batch gradient of the unwrapped model.
C1_DdpMatchesFullBatch ==
    \A r \in Ranks :
        /\ ddpPc[r] = "update_parameters" => ddpGrad[r] = modelGrad[r]
        /\ ddpPc[r] = "assert" => ParametersEqual(r)
        /\ ddpPc[r] # "failed"

\* C1 witness: in the second iteration a rank holds a nonzero DDP gradient
\* equal to the full-batch gradient although the two shards alone give
\* different gradients.
C1_Witness ==
    \E r \in Ranks :
        /\ ddpPc[r] = "update_parameters"
        /\ iteration[r] = 1
        /\ ddpGrad[r] = modelGrad[r]
        /\ \E i \in 1 .. 3 : ddpGrad[r][i].n # 0
        /\ LET b == local_batch_size
           IN  step_model(ddpParams[r], Shard(input[r], 0, b), Shard(target[r], 0, b))
                 # step_model(ddpParams[r], Shard(input[r], 1, b), Shard(target[r], 1, b))

(***************************************************************************)
(* CommonDistributedDataParallelTest: DDP with activation checkpointing.   *)
(* The modules under test, with layers l1 and l2 of width 1.               *)
(***************************************************************************)
\* n_iters of _test_ddp_checkpointing
n_iters == 5
\* ddp_bs of _prepare_dummy_data: the number of rows of a rank's shard
ddp_bs == 16

Modules == {"CheckpointOnceModule", "CheckpointTwiceModule",
            "CheckpointTwiceModuleWeightSharing", "DynamicCheckpointTwiceModule",
            "DynamicCheckpointTwiceModuleWeightSharing", "SequentialWeightSharing"}

\* l1.weight = l2.weight
SharesWeight(m) ==
    m \in {"CheckpointTwiceModuleWeightSharing",
           "DynamicCheckpointTwiceModuleWeightSharing", "SequentialWeightSharing"}

\* model.parameters(): l1.weight, l1.bias, l2.weight, l2.bias; a shared
\* weight is listed once, so that the list is weight, l1.bias, l2.bias.
NumParams(m) == IF SharesWeight(m) THEN 3 ELSE 4
WeightOf(m, l) == IF SharesWeight(m) \/ l = 1 THEN 1 ELSE 3
BiasOf(m, l) == IF l = 1 THEN 2 ELSE (IF SharesWeight(m) THEN 3 ELSE 4)
IsWeight(m, i) == i = 1 \/ (~SharesWeight(m) /\ i = 3)

\* The forward method of module m at the given value of self.count: the
\* layers applied, in order, and whether each is run under checkpoint().
Layer(l, ckpt) == [layer |-> l, ckpt |-> ckpt]
ModuleForward(m, count) ==
    CASE m = "CheckpointOnceModule" -> <<Layer(1, FALSE), Layer(2, TRUE)>>
      [] m \in {"CheckpointTwiceModule", "CheckpointTwiceModuleWeightSharing"} ->
            <<Layer(1, FALSE), Layer(2, TRUE), Layer(2, TRUE)>>
      [] m \in {"DynamicCheckpointTwiceModule",
                "DynamicCheckpointTwiceModuleWeightSharing"} ->
            IF count % 2 = 1 THEN <<Layer(1, TRUE)>> ELSE <<Layer(2, TRUE)>>
      [] m = "SequentialWeightSharing" -> <<Layer(1, FALSE), Layer(2, FALSE)>>

\* The modules whose forward counts its calls in self.count
IsDynamicNever(m) == FALSE
IsDynamic(m) ==
    m \in {"DynamicCheckpointTwiceModule", "DynamicCheckpointTwiceModuleWeightSharing"}

\* The output of the first k layers on the input row x (nn.Linear: w * x + b).
RECURSIVE Activation(_, _, _, _, _)
Activation(m, p, layers, x, k) ==
    IF k = 0 THEN x
    ELSE p[WeightOf(m, layers[k].layer)] * Activation(m, p, layers, x, k - 1)
           + p[BiasOf(m, layers[k].layer)]

\* nn.MSELoss() over n rows: the gradient of the loss in the output of
\* layer k for the row (x, t), times n / 2.
RECURSIVE OutputGrad(_, _, _, _, _, _)
OutputGrad(m, p, layers, x, t, k) ==
    IF k = Len(layers) THEN Activation(m, p, layers, x, k) - t
    ELSE OutputGrad(m, p, layers, x, t, k + 1) * p[WeightOf(m, layers[k + 1].layer)]

RECURSIVE IntSeqSum(_)
IntSeqSum(s) == IF s = <<>> THEN 0 ELSE Head(s) + IntSeqSum(Tail(s))

\* What the k-th layer application adds to the gradient of its weight or
\* of its bias, for the batch (xs, ts).
LayerGrad(m, p, layers, xs, ts, k, weight) ==
    LET n == Len(xs)
        row(i) == OutputGrad(m, p, layers, xs[i], ts[i], k)
                    * (IF weight THEN Activation(m, p, layers, xs[i], k - 1) ELSE 1)
    IN  Rat(2 * IntSeqSum([i \in 1 .. n |-> row(i)]), n)

RECURSIVE SetSum(_, _, _, _, _, _, _)
SetSum(m, p, layers, xs, ts, uses, weight) ==
    IF uses = {} THEN RZero
    ELSE LET k == CHOOSE k \in uses : TRUE
         IN  RAdd(LayerGrad(m, p, layers, xs, ts, k, weight),
                  SetSum(m, p, layers, xs, ts, uses \ {k}, weight))

(***************************************************************************)
(* The autograd engine: the order in which backward() runs the gradient    *)
(* accumulators of the parameters. A layer run under the reentrant         *)
(* checkpoint is recomputed and differentiated by a backward pass of its   *)
(* own, which accumulates into param.grad and runs the accumulators'       *)
(* hooks when it is reached; every other use of a parameter is part of the *)
(* one graph of the forward pass, whose accumulator runs once, after the   *)
(* gradients of all these uses have been summed.                           *)
(***************************************************************************)
InnerBackward(layers, k, use_reentrant) == layers[k].ckpt /\ use_reentrant

GraphUses(m, layers, use_reentrant, i) ==
    {k \in 1 .. Len(layers) :
        /\ ~InnerBackward(layers, k, use_reentrant)
        /\ i \in {WeightOf(m, layers[k].layer), BiasOf(m, layers[k].layer)}}

Hook(i, uses) == [kind |-> "hook", param |-> i, uses |-> uses, num_iterations |-> 0]

LayerEvents(m, layers, use_reentrant, k) ==
    LET w == WeightOf(m, layers[k].layer)
        b == BiasOf(m, layers[k].layer)
        graph(i) == LET u == GraphUses(m, layers, use_reentrant, i)
                    IN  IF \A j \in u : k <= j THEN <<Hook(i, u)>> ELSE <<>>
    IN  IF InnerBackward(layers, k, use_reentrant)
        THEN <<Hook(w, {k}), Hook(b, {k})>>
        ELSE graph(w) \o graph(b)

RECURSIVE BackwardEvents(_, _, _, _)
BackwardEvents(m, layers, use_reentrant, k) ==
    IF k = 0 THEN <<>>
    ELSE LayerEvents(m, layers, use_reentrant, k)
           \o BackwardEvents(m, layers, use_reentrant, k - 1)

\* The parameters the graph of the forward pass reaches from the output.
GraphParams(m, layers, use_reentrant) ==
    {i \in 1 .. NumParams(m) : GraphUses(m, layers, use_reentrant, i) # {}}

\* AccumulateGrad of a plain (unwrapped) model: param.grad += v, or
\* param.grad = v when it is None.
Accumulate(g, i, v) == [g EXCEPT ![i] = IF g[i] = None THEN v ELSE RAdd(g[i], v)]

\* loss.backward() of the unwrapped model on the batch (xs, ts).
RECURSIVE ModelBackward(_, _, _, _, _, _, _)
ModelBackward(m, p, layers, xs, ts, events, g) ==
    IF events = <<>> THEN g
    ELSE LET e == Head(events)
         IN  ModelBackward(m, p, layers, xs, ts, Tail(events),
                 Accumulate(g, e.param,
                     SetSum(m, p, layers, xs, ts, e.uses, IsWeight(m, e.param))))

\* zero_grad(set_to_none=False): a gradient that is None stays None.
zero_grad(g) == [i \in DOMAIN g |-> IF g[i] = None THEN None ELSE RZero]

(***************************************************************************)
(* DistributedDataParallel and its reducer, for one rank. d is the state   *)
(* of the wrapper and the reducer (a record), c the arguments the wrapper  *)
(* was built with. All parameters are in one bucket (bucket_cap_mb = 1).   *)
(* An operation that raises sets d.error and later operations do nothing.  *)
(***************************************************************************)
MarkedTwice == "Expected to mark a variable ready only once."
GraphChanged == "Your training graph has changed in this iteration"
NotFinished == "Expected to have finished reduction in the prior iteration before starting a new one."
UndefinedGrad == "Encountered gradient which is undefined, but still allreduced by DDP reducer."
NotBucketView == "Detected at least one parameter gradient is not the expected DDP bucket view with gradient_as_bucket_view=True."

NewDdp(np) ==
    [num_iterations |-> 0, py_num_iterations |-> 0,
     hooksTriggered |-> [i \in 1 .. np |-> 0],
     hooksPerIter |-> [i \in 1 .. np |-> 0],
     ready |-> {}, unused |-> <<>>, has_marked_unused |-> FALSE,
     local_used |-> [i \in 1 .. np |-> 0], local_used_reduced |-> FALSE,
     require_finalize |-> FALSE, expect_autograd_hooks |-> FALSE,
     pending |-> np, bucket_ready |-> FALSE,
     finalize_queued |-> FALSE, delay_queued |-> FALSE,
     grad |-> [i \in 1 .. np |-> None], alias |-> [i \in 1 .. np |-> FALSE],
     bucket |-> [i \in 1 .. np |-> RZero],
     error |-> ""]

Raise(d, msg) == [d EXCEPT !.error = msg]

dynamic_graph_find_unused(c) == ~c.static_graph /\ c.find_unused_parameters
static_graph_first_iteration(c, d) == c.static_graph /\ d.num_iterations = 1
static_graph_after_first_iteration(c, d) == c.static_graph /\ d.num_iterations > 1

\* param.grad of the wrapped model: the bucket view when the gradient is one.
GradOf(d, i) == IF d.alias[i] THEN d.bucket[i] ELSE d.grad[i]
DdpGrads(d) == [i \in DOMAIN d.grad |-> GradOf(d, i)]

\* The ascending sequence of the members of a set of parameter indices.
RECURSIVE SeqOf(_)
SeqOf(S) ==
    IF S = {} THEN <<>>
    ELSE LET lo == CHOOSE k \in S : \A j \in S : k <= j
         IN  <<lo>> \o SeqOf(S \ {lo})

\* AccumulateGrad for a parameter of the wrapped model.
DdpAccumulate(d, i, v) ==
    IF GradOf(d, i) = None
    THEN [d EXCEPT !.grad[i] = v, !.alias[i] = FALSE]
    ELSE IF d.alias[i]
         THEN [d EXCEPT !.bucket[i] = RAdd(d.bucket[i], v)]
         ELSE [d EXCEPT !.grad[i] = RAdd(d.grad[i], v)]

\* ddp_model.zero_grad(set_to_none=False)
DdpZeroGrad(d) ==
    [d EXCEPT !.grad = [i \in DOMAIN d.grad |->
                            IF d.grad[i] = None \/ d.alias[i] THEN d.grad[i] ELSE RZero],
              !.bucket = [i \in DOMAIN d.bucket |->
                            IF d.alias[i] THEN RZero ELSE d.bucket[i]]]

\* Reducer::mark_variable_ready_dense: the gradient, divided by the number
\* of ranks, goes into the bucket; with gradient_as_bucket_view the
\* gradient becomes a view of the bucket.
mark_variable_ready_dense(c, d, i) ==
    IF GradOf(d, i) # None
    THEN IF ~d.alias[i]
         THEN [d EXCEPT !.bucket[i] = RDivInt(d.grad[i], world_size),
                        !.alias[i] = c.use_bucket_view]
         ELSE [d EXCEPT !.bucket[i] = RDivInt(d.bucket[i], world_size)]
    ELSE IF (dynamic_graph_find_unused(c) \/ static_graph_first_iteration(c, d))
             /\ d.local_used[i] # 0
         THEN Raise(d, UndefinedGrad)
         ELSE [d EXCEPT !.bucket[i] = RZero]

\* Reducer::mark_variable_ready
mark_variable_ready(c, d, i) ==
    IF d.error # "" THEN d
    ELSE IF i \in d.ready THEN Raise(d, MarkedTwice)
    ELSE LET d1 == mark_variable_ready_dense(c,
                       [d EXCEPT !.ready = d.ready \cup {i}, !.require_finalize = TRUE], i)
         IN  IF d1.error # "" THEN d1
             ELSE IF d1.pending - 1 = 0
                  \* mark_bucket_ready: the allreduce of the bucket starts, and
                  \* finalize_backward is queued for the end of backward
                  THEN [d1 EXCEPT !.pending = 0, !.bucket_ready = TRUE,
                                  !.finalize_queued = TRUE]
                  ELSE [d1 EXCEPT !.pending = d1.pending - 1]

RECURSIVE mark_all_ready(_, _, _)
mark_all_ready(c, d, s) ==
    IF s = <<>> THEN d ELSE mark_all_ready(c, mark_variable_ready(c, d, Head(s)), Tail(s))

\* Reducer::autograd_hook
autograd_hook(c, d, i) ==
    IF ~d.expect_autograd_hooks THEN d
    ELSE
    LET d1 == IF dynamic_graph_find_unused(c) \/ static_graph_first_iteration(c, d)
              THEN [d EXCEPT !.local_used[i] = 1] ELSE d
    IN  IF static_graph_first_iteration(c, d)
        THEN [d1 EXCEPT !.hooksTriggered[i] = d1.hooksTriggered[i] + 1]
        ELSE
        LET d2 == IF ~d1.has_marked_unused
                  THEN mark_all_ready(c, [d1 EXCEPT !.has_marked_unused = TRUE], d1.unused)
                  ELSE d1
        IN  IF d2.error # "" THEN d2
            ELSE IF static_graph_after_first_iteration(c, d2)
            THEN IF ~(d2.hooksPerIter[i] > 0) THEN Raise(d2, GraphChanged)
                 ELSE LET d3 == [d2 EXCEPT !.hooksPerIter[i] = d2.hooksPerIter[i] - 1]
                      IN  IF d3.hooksPerIter[i] = 0 THEN mark_variable_ready(c, d3, i) ELSE d3
            ELSE mark_variable_ready(c, d2, i)

\* Reducer::prepare_for_backward; graphParams are the parameters the search
\* from the outputs of the forward pass finds.
prepare_for_backward(c, d, graphParams) ==
    LET d1 == [d EXCEPT !.expect_autograd_hooks = TRUE,
                        !.pending = Len(d.grad),
                        !.bucket_ready = FALSE,
                        !.hooksPerIter = IF c.static_graph THEN d.hooksTriggered
                                         ELSE d.hooksPerIter,
                        !.has_marked_unused = FALSE,
                        !.ready = {}]
    IN  IF dynamic_graph_find_unused(c)
        THEN [d1 EXCEPT !.unused = SeqOf((1 .. Len(d.grad)) \ graphParams)]
        ELSE d1

\* DistributedDataParallel.forward with gradients enabled: the iteration
\* counters, Reducer::prepare_for_forward, Reducer::rebuild_buckets (which
\* starts with ensure_prior_reduction_finished) and prepare_for_backward.
\* With gradients disabled forward leaves the reducer alone.
ddp_forward(c, d, grad_enabled, graphParams) ==
    IF ~grad_enabled \/ d.error # "" THEN d
    ELSE LET d1 == [d EXCEPT !.py_num_iterations = d.py_num_iterations + 1,
                             !.num_iterations = d.num_iterations + 1]
         IN  IF d1.require_finalize THEN Raise(d1, NotFinished)
             ELSE prepare_for_backward(c, d1, graphParams)

\* Whether forward passes its output through _DDPSink.
uses_ddp_sink(c, d) ==
    (c.find_unused_parameters /\ ~c.static_graph)
        \/ (c.static_graph /\ d.py_num_iterations = 1)

\* Reducer::delay_all_reduce, up to the start of the allreduce.
RECURSIVE mark_all_dense(_, _, _)
mark_all_dense(c, d, s) ==
    IF s = <<>> \/ d.error # "" THEN d
    ELSE mark_all_dense(c, mark_variable_ready_dense(c, d, Head(s)), Tail(s))

delay_all_reduce(c, d) ==
    LET np == Len(d.grad)
        d1 == [d EXCEPT !.unused = SeqOf({i \in 1 .. np : d.hooksTriggered[i] = 0}),
                        !.require_finalize = TRUE]
        d2 == mark_all_dense(c, d1, SeqOf(1 .. np))
    IN  IF d2.error # "" THEN d2 ELSE [d2 EXCEPT !.bucket_ready = TRUE]

\* Reducer::finalize_backward once the allreduce of the bucket (sum) and of
\* the map of locally used parameters (used) have completed.
finalize_backward(c, d, sum, used) ==
    LET np == Len(d.grad)
        reduced == dynamic_graph_find_unused(c) \/ static_graph_first_iteration(c, d)
        global_unused(i) ==
            /\ c.static_graph \/ c.find_unused_parameters
            /\ d.local_used[i] = 0
            /\ (reduced /\ ~d.local_used_reduced) => used[i] = 0
        written(i) == ~global_unused(i)
        bad == c.use_bucket_view /\ \E i \in 1 .. np :
                   written(i) /\ GradOf(d, i) # None /\ ~d.alias[i]
        lazily == reduced /\ ~d.local_used_reduced
                    /\ \E i \in 1 .. np : d.local_used[i] = 0
        d1 == [d EXCEPT
                 !.expect_autograd_hooks = FALSE,
                 !.require_finalize = FALSE,
                 !.finalize_queued = FALSE,
                 !.delay_queued = FALSE,
                 !.bucket = sum,
                 !.grad = [i \in 1 .. np |->
                             IF written(i) /\ ~c.use_bucket_view THEN sum[i] ELSE d.grad[i]],
                 !.alias = [i \in 1 .. np |->
                             IF written(i) /\ c.use_bucket_view THEN TRUE ELSE d.alias[i]],
                 !.local_used = IF dynamic_graph_find_unused(c)
                                THEN [i \in 1 .. np |-> 0]
                                ELSE IF lazily THEN used ELSE d.local_used,
                 !.local_used_reduced = IF dynamic_graph_find_unused(c) THEN FALSE
                                        ELSE d.local_used_reduced \/ lazily]
    IN  IF bad THEN Raise(d, NotBucketView) ELSE d1

(***************************************************************************)
(* The calls of _test_ddp_checkpointing the tests make. use_reentrant is   *)
(* the value of @parametrize, use_bucket_view and static_graph the loop    *)
(* variables of the test; a call site that fixes one of them ignores it.   *)
(***************************************************************************)
\* m, use_reentrant, use_bucket_view, find_unused_parameters, static_graph,
\* run_checkpoint, allow_none_grads
Call(m, ur, bv, fu, sg, rc, ng) ==
    [module |-> m, use_reentrant |-> ur, use_bucket_view |-> bv,
     find_unused_parameters |-> fu, static_graph |-> sg,
     run_checkpoint |-> rc, allow_none_grads |-> ng]

CallSites == {"once", "once_find_unused", "unused_params", "unused_params_static",
              "twice", "twice_find_unused", "twice_static", "dynamic_module",
              "dynamic_weight_sharing", "weight_sharing", "twice_weight_sharing"}

\* The sites of tests without @parametrize, and the sites that do not loop
\* over static_graph (or run only for one value of it).
Unparametrized == {"dynamic_module", "dynamic_weight_sharing", "twice_weight_sharing"}
LoopsOverStaticGraph == {"once", "weight_sharing"}

\* test_ddp_checkpointing_once, lines 471-476 and 480-486
OnceCall(ur, bv, sg) == Call("CheckpointOnceModule", ur, bv, FALSE, sg, FALSE, FALSE)
OnceFindUnusedCall(bv) == Call("CheckpointOnceModule", TRUE, bv, TRUE, TRUE, FALSE, FALSE)

\* test_ddp_checkpointing_unused_params, lines 506-511 and 513-519
UnusedParamsCall(ur, bv) == Call("CheckpointOnceModule", ur, bv, TRUE, FALSE, FALSE, FALSE)
UnusedParamsNotStaticCall(ur, bv) == UnusedParamsCall(ur, bv)
UnusedParamsStaticCall(ur, bv) == Call("CheckpointOnceModule", ur, bv, TRUE, TRUE, FALSE, FALSE)

\* test_ddp_checkpointing_twice, lines 538-543 and 546-552
TwiceCallWithStaticGraph(ur, bv) ==
    Call("CheckpointTwiceModule", ur, bv, FALSE, TRUE, FALSE, FALSE)
TwiceCall(ur, bv) == Call("CheckpointTwiceModule", ur, bv, FALSE, FALSE, FALSE, FALSE)
TwiceFindUnusedCall(ur, bv) == Call("CheckpointTwiceModule", ur, bv, TRUE, FALSE, FALSE, FALSE)

\* test_ddp_checkpointing_twice_static_graph, lines 564-569
TwiceStaticCallNotStatic(ur, bv) == TwiceCall(ur, bv)
TwiceStaticCall(ur, bv) == Call("CheckpointTwiceModule", ur, bv, FALSE, TRUE, FALSE, FALSE)

\* test_ddp_checkpointing_dynamic_module, lines 579-588, and
\* test_ddp_checkpointing_dynamic_weight_sharing, lines 598-607
DynamicModuleCallNoFindUnused(bv) ==
    Call("DynamicCheckpointTwiceModule", FALSE, bv, FALSE, FALSE, FALSE, TRUE)
DynamicModuleCall(bv) ==
    Call("DynamicCheckpointTwiceModule", FALSE, bv, TRUE, FALSE, FALSE, TRUE)
DynamicWeightSharingCall(bv) ==
    Call("DynamicCheckpointTwiceModuleWeightSharing", FALSE, bv, TRUE, FALSE, FALSE, TRUE)

\* test_ddp_checkpointing_weight_sharing, lines 635-642
WeightSharingCallNoCheckpoint(ur, bv, sg) ==
    Call("SequentialWeightSharing", ur, bv, FALSE, sg, FALSE, FALSE)
WeightSharingCall(ur, bv, sg) ==
    Call("SequentialWeightSharing", ur, bv, FALSE, sg, TRUE, FALSE)

\* test_ddp_checkpointing_twice_weight_sharing, lines 653-658
TwiceWeightSharingCall(bv) ==
    Call("CheckpointTwiceModuleWeightSharing", TRUE, bv, FALSE, TRUE, FALSE, FALSE)

CallSite(site, ur, bv, sg) ==
    CASE site = "once" -> OnceCall(ur, bv, sg)
      [] site = "once_find_unused" -> OnceFindUnusedCall(bv)
      [] site = "unused_params" -> UnusedParamsCall(ur, bv)
      [] site = "unused_params_static" -> UnusedParamsStaticCall(ur, bv)
      [] site = "twice" -> TwiceCall(ur, bv)
      [] site = "twice_find_unused" -> TwiceFindUnusedCall(ur, bv)
      [] site = "twice_static" -> TwiceStaticCall(ur, bv)
      [] site = "dynamic_module" -> DynamicModuleCall(bv)
      [] site = "dynamic_weight_sharing" -> DynamicWeightSharingCall(bv)
      [] site = "weight_sharing" -> WeightSharingCall(ur, bv, sg)
      [] site = "twice_weight_sharing" -> TwiceWeightSharingCall(bv)

\* _prepare_dummy_data: bs = ddp_bs * world_size rows; rank r trains on the
\* rows offset .. offset + ddp_bs - 1 with offset = rank * ddp_bs.
bs == ddp_bs * world_size
OffsetOfRankZero(rank) == 0
Offset(rank) == rank * ddp_bs
DdpSlice(rows, rank) == [i \in 1 .. ddp_bs |-> rows[Offset(rank) + i]]

\* What torch.rand and torch.randn may give under the seed: the rows of
\* input and target, and the initial weights and biases of l1 and l2.
Seeds == {1, 2}
DummyInputs ==
    [seed \in Seeds |-> [i \in 1 .. bs |-> IF seed = 1 THEN i % 3 ELSE (i * i) % 5]]
DummyTargets ==
    [seed \in Seeds |-> [i \in 1 .. bs |-> IF seed = 1 THEN (i + 1) % 2 ELSE (i \div 3) % 3]]
\* input, target and their slices ddp_input, ddp_target
DummyInput(seed) == DummyInputs[seed]
DummyTarget(seed) == DummyTargets[seed]
DdpInputs == [seed \in Seeds |-> [r \in Ranks |-> DdpSlice(DummyInputs[seed], r)]]
DdpTargets == [seed \in Seeds |-> [r \in Ranks |-> DdpSlice(DummyTargets[seed], r)]]
ModuleInit(m, seed) ==
    IF SharesWeight(m) THEN (IF seed = 1 THEN <<2, 1, -1>> ELSE <<-1, 0, 1>>)
    ELSE (IF seed = 1 THEN <<1, 0, 2, 1>> ELSE <<2, -1, -1, 1>>)

NotSent == [bucket |-> <<>>, used |-> <<>>]
Sink(k) == [kind |-> "sink", param |-> 0, uses |-> {}, num_iterations |-> k]
Recompute == [kind |-> "recompute", param |-> 0, uses |-> {}, num_iterations |-> 0]

CkInit ==
    /\ \E site \in CallSites, ur \in BOOLEAN, bv \in BOOLEAN, sg \in BOOLEAN :
          /\ site \in Unparametrized => ur
          /\ site \notin LoopsOverStaticGraph => sg
          \* line 477: the call is made only when static_graph is set
          /\ ckSite = site
          /\ ckCase = CallSite(site, ur, bv, sg)
    /\ ckSeed \in Seeds
    /\ ckParams = ModuleInit(ckCase.module, ckSeed)
    /\ ckModelGrad = [r \in Ranks |-> [i \in 1 .. NumParams(ckCase.module) |-> None]]
    /\ ckModelCount = [r \in Ranks |-> 0]
    /\ ckDdp = [r \in Ranks |-> NewDdp(NumParams(ckCase.module))]
    /\ ckDdpCount = [r \in Ranks |-> 0]
    /\ ckGraph = [r \in Ranks |-> <<>>]
    /\ ckEvents = [r \in Ranks |-> <<>>]
    /\ ckSent = [i \in 0 .. (n_iters - 1) |-> [r \in Ranks |-> NotSent]]
    /\ ckIter = [r \in Ranks |-> 0]
    /\ ckPc = [r \in Ranks |-> "zero_grad"]

\* Where a rank goes after an operation of the wrapper: on with the test,
\* or out of it with the RuntimeError raised.
AfterDdp(d, pc) == IF d.error # "" THEN "raised" ELSE pc

\* What the rank gives the allreduce when the operation d -> d2 has made
\* the bucket ready.
Sent(r, d, d2) ==
    IF d2.error = "" /\ d2.bucket_ready /\ ~d.bucket_ready
    THEN [ckSent EXCEPT ![ckIter[r]][r] = [bucket |-> d2.bucket, used |-> d2.local_used]]
    ELSE ckSent

\* lines 369-370: model.zero_grad, ddp_model.zero_grad (set_to_none=False)
CkZeroGrad(r) ==
    /\ ckPc[r] = "zero_grad"
    /\ ckModelGrad' = [ckModelGrad EXCEPT ![r] = zero_grad(ckModelGrad[r])]
    /\ ckDdp' = [ckDdp EXCEPT ![r] = DdpZeroGrad(ckDdp[r])]
    /\ ckPc' = [ckPc EXCEPT ![r] = "train_model"]
    /\ UNCHANGED <<ckSite, ckCase, ckParams, ckSeed, ckModelCount,
                   ckDdpCount, ckGraph, ckEvents, ckSent, ckIter>>
    /\ UNCHANGED ckOthers

\* line 371: _train_model(model, input, target, ...) on the whole batch.
CkTrainModel(r) ==
    /\ ckPc[r] = "train_model"
    /\ LET m == ckCase.module
           layers == ModuleForward(m, ckModelCount[r])
           events == BackwardEvents(m, layers, ckCase.use_reentrant, Len(layers))
       IN  ckModelGrad' = [ckModelGrad EXCEPT ![r] =
               ModelBackward(m, ckParams, layers, DummyInput(ckSeed), DummyTarget(ckSeed),
                             events, ckModelGrad[r])]
    /\ ckModelCount' = [ckModelCount EXCEPT ![r] =
                           IF IsDynamic(ckCase.module) THEN ckModelCount[r] + 1 ELSE 0]
    /\ ckPc' = [ckPc EXCEPT ![r] = "ddp_forward"]
    /\ UNCHANGED <<ckSite, ckCase, ckParams, ckSeed, ckDdp, ckDdpCount,
                   ckGraph, ckEvents, ckSent, ckIter>>
    /\ UNCHANGED ckOthers

\* What an operation of ddp_model leaves on rank r: the wrapper, the rest of
\* the backward pass, the buckets given to the allreduce and where the rank
\* goes. The operations take the arguments c of the call
\* DistributedDataParallel(...).
After(d2, events, sent, pc) ==
    [ddp |-> d2, events |-> events, sent |-> sent, pc |-> AfterDdp(d2, pc)]

\* lines 372-374, _train_model(ddp_model, ...) up to the loss: the forward
\* pass of ddp_model, under checkpoint() when run_checkpoint is set (the
\* reentrant checkpoint runs it with gradients disabled).
DdpForward(r, c) ==
    LET m == c.module
        layers == ModuleForward(m, ckDdpCount[r])
        grad_enabled == ~(c.run_checkpoint /\ c.use_reentrant)
        d2 == ddp_forward(c, ckDdp[r], grad_enabled,
                          GraphParams(m, layers, c.use_reentrant))
        sink == IF grad_enabled /\ uses_ddp_sink(c, d2)
                THEN <<Sink(d2.py_num_iterations)>> ELSE <<>>
        again == IF c.run_checkpoint THEN <<Recompute>> ELSE <<>>
    IN  After(d2, sink \o again \o BackwardEvents(m, layers, c.use_reentrant, Len(layers)),
              ckSent, "backward")

\* l.backward() reaches _DDPSink.backward: in the first iteration of a
\* static graph it queues Reducer::delay_all_reduce for the end of backward.
SinkBackward(r, c) ==
    After([ckDdp[r] EXCEPT !.delay_queued =
               @ \/ (c.static_graph /\ Head(ckEvents[r]).num_iterations = 1)],
          Tail(ckEvents[r]), ckSent, "backward")

\* l.backward() reaches the checkpoint of the whole ddp_model, which runs
\* the forward pass of ddp_model again, with gradients enabled. The
\* reentrant checkpoint then differentiates the graph of this second pass.
RecomputeForward(r, c) ==
    LET d2 == ddp_forward(c, ckDdp[r], TRUE,
                          GraphParams(c.module, ckGraph[r], c.use_reentrant))
        sink == IF c.use_reentrant /\ uses_ddp_sink(c, d2)
                THEN <<Sink(d2.py_num_iterations)>> ELSE <<>>
    IN  After(d2, sink \o Tail(ckEvents[r]), ckSent, "backward")

\* l.backward() runs the gradient accumulator of a parameter: the gradient
\* of the rank's rows is added to param.grad, then the reducer's hook runs.
AccumulateGrad(r, c) ==
    LET e == Head(ckEvents[r])
        v == SetSum(c.module, ckParams, ckGraph[r], DdpInputs[ckSeed][r],
                    DdpTargets[ckSeed][r], e.uses, IsWeight(c.module, e.param))
        d1 == DdpAccumulate(ckDdp[r], e.param, v)
        d2 == autograd_hook(c, d1, e.param)
    IN  After(d2, Tail(ckEvents[r]), Sent(r, d1, d2), "backward")

\* The end of l.backward(): the engine runs the queued callbacks,
\* delay_all_reduce or finalize_backward; without one, backward just ends.
EndBackward(r, c) ==
    LET d == ckDdp[r]
        d2 == IF d.delay_queued THEN delay_all_reduce(c, d) ELSE d
    IN  After(d2, ckEvents[r], Sent(r, d, d2),
              IF d.delay_queued \/ d.finalize_queued THEN "finalize" ELSE "compare")

\* finalize_backward waits for the allreduce, which completes when every
\* rank has given its bucket, and writes the result to the gradients.
AllreduceDone(r) == \A k \in Ranks : ckSent[ckIter[r]][k] # NotSent

FinalizeDdp(r, c) ==
    LET np == NumParams(c.module)
        sent == ckSent[ckIter[r]]
        sum == [i \in 1 .. np |->
                   RSeqSum([k \in 1 .. world_size |-> sent[k - 1].bucket[i]])]
        used == [i \in 1 .. np |->
                   IntSeqSum([k \in 1 .. world_size |-> sent[k - 1].used[i]])]
    IN  After(finalize_backward(c, ckDdp[r], sum, used), ckEvents[r], ckSent, "compare")

\* The operation of ddp_model that rank r runs next, if it is to run one.
AtDdpForward(r) == ckPc[r] = "ddp_forward"
AtEvent(r, kind) ==
    ckPc[r] = "backward" /\ ckEvents[r] # <<>> /\ Head(ckEvents[r]).kind = kind
AtEndBackward(r) == ckPc[r] = "backward" /\ ckEvents[r] = <<>>
AtFinalize(r) == ckPc[r] = "finalize" /\ AllreduceDone(r)

\* The rank takes the result of an operation of ddp_model.
Becomes(r, res) ==
    /\ ckDdp' = [ckDdp EXCEPT ![r] = res.ddp]
    /\ ckEvents' = [ckEvents EXCEPT ![r] = res.events]
    /\ ckSent' = res.sent
    /\ ckPc' = [ckPc EXCEPT ![r] = res.pc]
    /\ UNCHANGED <<ckSite, ckCase, ckParams, ckSeed, ckModelGrad, ckModelCount, ckIter>>
    /\ UNCHANGED ckOthers

CkDdpForward(r) ==
    /\ AtDdpForward(r)
    /\ Becomes(r, DdpForward(r, ckCase))
    /\ ckGraph' = [ckGraph EXCEPT ![r] = ModuleForward(ckCase.module, ckDdpCount[r])]
    /\ ckDdpCount' = [ckDdpCount EXCEPT ![r] =
                         IF IsDynamic(ckCase.module) THEN ckDdpCount[r] + 1 ELSE 0]

CkSinkBackward(r) ==
    /\ AtEvent(r, "sink")
    /\ Becomes(r, SinkBackward(r, ckCase))
    /\ UNCHANGED <<ckGraph, ckDdpCount>>

CkRecomputeForward(r) ==
    /\ AtEvent(r, "recompute")
    /\ Becomes(r, RecomputeForward(r, ckCase))
    /\ UNCHANGED <<ckGraph, ckDdpCount>>

CkAccumulateGrad(r) ==
    /\ AtEvent(r, "hook")
    /\ Becomes(r, AccumulateGrad(r, ckCase))
    /\ UNCHANGED <<ckGraph, ckDdpCount>>

CkEndBackward(r) ==
    /\ AtEndBackward(r)
    /\ Becomes(r, EndBackward(r, ckCase))
    /\ UNCHANGED <<ckGraph, ckDdpCount>>

CkFinalizeBackward(r) ==
    /\ AtFinalize(r)
    /\ Becomes(r, FinalizeDdp(r, ckCase))
    /\ UNCHANGED <<ckGraph, ckDdpCount>>

\* lines 375-379: the assertions on every pair of gradients.
GradsPresent(r) ==
    \A i \in 1 .. NumParams(ckCase.module) :
        ckModelGrad[r][i] # None /\ GradOf(ckDdp[r], i) # None
GradsEqual(r) ==
    \A i \in 1 .. NumParams(ckCase.module) : ckModelGrad[r][i] = GradOf(ckDdp[r], i)

CkCompare(r) ==
    /\ ckPc[r] = "compare"
    /\ ckPc' = [ckPc EXCEPT ![r] =
                  IF (~ckCase.allow_none_grads => GradsPresent(r)) /\ GradsEqual(r)
                  THEN (IF ckIter[r] + 1 < n_iters THEN "zero_grad" ELSE "passed")
                  ELSE "failed"]
    /\ ckIter' = [ckIter EXCEPT ![r] = ckIter[r] + 1]
    /\ UNCHANGED <<ckSite, ckCase, ckParams, ckSeed, ckModelGrad,
                   ckModelCount, ckDdp, ckDdpCount, ckGraph, ckEvents, ckSent>>
    /\ UNCHANGED ckOthers

CkNext ==
    \E r \in Ranks :
        \/ CkZeroGrad(r)
        \/ CkTrainModel(r)
        \/ CkDdpForward(r)
        \/ CkSinkBackward(r)
        \/ CkRecomputeForward(r)
        \/ CkAccumulateGrad(r)
        \/ CkEndBackward(r)
        \/ CkFinalizeBackward(r)
        \/ CkCompare(r)

\* The test runs alone in its processes.
CkStart == CkInit /\ DdpIdle /\ SeqIdle /\ WarnIdle /\ BarIdle /\ RegIdle /\ OpIdle /\ BktIdle /\ GpuIdle /\ ToIdle /\ DbgIdle /\ PsgIdle /\ CtIdle /\ ExIdle /\ BfIdle
SpecCk == CkStart /\ [][CkNext]_vars

(***************************************************************************)
(* Properties of the checkpointing tests.                                  *)
(***************************************************************************)
\* The rank has met neither a RuntimeError nor a failed assertion.
CkNoError(r) == ckPc[r] \notin {"raised", "failed"} /\ ckDdp[r].error = ""

\* The rank does not wait for the bucket of a rank that has left the test.
CkNotStuck(r) ==
    ckPc[r] = "finalize" =>
        \A k \in Ranks : ckSent[ckIter[r]][k] = NotSent
                            => ckPc[k] \notin {"raised", "failed", "passed"}

\* The rank trains without error and after each backward finds every
\* gradient of the two models present and equal.
CkTrainsLikeModel(r) ==
    /\ CkNoError(r)
    /\ CkNotStuck(r)
    /\ ckPc[r] = "compare" => GradsPresent(r) /\ GradsEqual(r)

\* The first l.backward() of ddp_model on the rank never returns: it is
\* still to run, running, or has raised the RuntimeError msg.
CkRaises(r, msg) ==
    /\ ckIter[r] = 0
    /\ ckPc[r] \in {"zero_grad", "train_model", "ddp_forward", "backward", "raised"}
    /\ ckPc[r] = "backward" => ckEvents[r] # <<>>
    /\ ckDdp[r].error = (IF ckPc[r] = "raised" THEN msg ELSE "")

\* C2: a module that checkpoints one layer once, find_unused_parameters
\* False, any use_reentrant, gradient_as_bucket_view and static_graph: all
\* 5 iterations run without error, and after each backward every gradient
\* of the two models is not None and equal.
C2_CheckpointOnceTrains ==
    (ckSite = "once" /\ ckCase.module = "CheckpointOnceModule"
        /\ ~ckCase.find_unused_parameters)
    => \A r \in Ranks : CkTrainsLikeModel(r)

\* C2 witness: a rank has passed all 5 iterations with the reentrant
\* checkpoint, a static graph and gradients that are bucket views, holding
\* a gradient that is not zero.
C2_Witness ==
    /\ ckSite = "once" /\ ckCase.use_reentrant /\ ckCase.static_graph
    /\ ckCase.use_bucket_view
    /\ \E r \in Ranks :
          /\ ckPc[r] = "passed" /\ ckIter[r] = n_iters
          /\ GradsPresent(r) /\ GradsEqual(r)
          /\ \A i \in 1 .. 4 : ckDdp[r].alias[i] /\ GradOf(ckDdp[r], i).n # 0

\* C3: without static graph and with the reentrant checkpoint, training
\* raises 'Expected to mark a variable ready only once.' when a
\* once-checkpointed module is wrapped with find_unused_parameters=True and
\* when a layer is checkpointed twice (find_unused_parameters True or
\* False); with the non-reentrant checkpoint the same calls train without
\* error and with gradients equal to the model's. Both for
\* gradient_as_bucket_view True and False.
C3_MarkedTwiceOnlyWhenReentrant ==
    (ckSite \in {"unused_params", "twice", "twice_find_unused"})
    => \A r \in Ranks :
          IF ckCase.use_reentrant THEN CkRaises(r, MarkedTwice) ELSE CkTrainsLikeModel(r)

\* C3 witness: the layer checkpointed twice by the reentrant checkpoint has
\* had its weight marked ready by the first inner backward, and the second
\* has raised.
C3_Witness ==
    /\ ckSite = "twice" /\ ckCase.use_reentrant /\ ~ckCase.find_unused_parameters
    /\ \E r \in Ranks :
          /\ ckPc[r] = "raised"
          /\ ckDdp[r].error = MarkedTwice
          /\ ckDdp[r].ready = {3, 4}

\* C4: with static_graph=True, checkpointing the same layer twice trains
\* without error and with gradients equal to the model's in all 5
\* iterations, for both checkpoint implementations and both values of
\* gradient_as_bucket_view; with the reentrant checkpoint also when the two
\* layers share their weight.
C4_TwiceWithStaticGraphTrains ==
    (ckSite \in {"twice_static", "twice_weight_sharing"})
    => \A r \in Ranks : CkTrainsLikeModel(r)

\* C4 witness: with the weight shared, a rank has passed all 5 iterations;
\* the hook of the shared weight ran 3 times in the first one.
C4_Witness ==
    /\ ckSite = "twice_weight_sharing"
    /\ \E r \in Ranks :
          /\ ckPc[r] = "passed" /\ ckIter[r] = n_iters
          /\ ckDdp[r].hooksTriggered = <<3, 1, 2>>
          /\ GradsPresent(r) /\ GradsEqual(r)

\* The arguments c with find_unused_parameters=False.
WithoutFindUnused(c) == [c EXCEPT !.find_unused_parameters = FALSE]

\* The operations of ddp_model on rank r leave the same for the arguments
\* c1 and c2.
SameOperation(r, c1, c2) ==
    /\ AtDdpForward(r) => DdpForward(r, c1) = DdpForward(r, c2)
    /\ AtEvent(r, "sink") => SinkBackward(r, c1) = SinkBackward(r, c2)
    /\ AtEvent(r, "recompute") => RecomputeForward(r, c1) = RecomputeForward(r, c2)
    /\ AtEvent(r, "hook") => AccumulateGrad(r, c1) = AccumulateGrad(r, c2)
    /\ AtEndBackward(r) => EndBackward(r, c1) = EndBackward(r, c2)
    /\ AtFinalize(r) => FinalizeDdp(r, c1) = FinalizeDdp(r, c2)

\* C5: find_unused_parameters is ignored under static graph: a
\* once-checkpointed module wrapped with static_graph=True and
\* find_unused_parameters=True trains without error and with gradients
\* equal to the model's, and every operation of the wrapper leaves it in
\* the state it would with find_unused_parameters=False, so that the two
\* runs do not differ; for both checkpoint implementations and both values
\* of gradient_as_bucket_view.
C5_FindUnusedIgnoredUnderStaticGraph ==
    (ckSite \in {"once_find_unused", "unused_params_static"})
    => /\ ckCase.find_unused_parameters
       /\ \A r \in Ranks :
             /\ CkTrainsLikeModel(r)
             /\ SameOperation(r, ckCase, WithoutFindUnused(ckCase))

\* C5 witness: a rank has passed all 5 iterations with the reentrant
\* checkpoint, static graph and find_unused_parameters=True; the reducer
\* never looked for unused parameters.
C5_Witness ==
    /\ ckSite = "unused_params_static" /\ ckCase.use_reentrant
    /\ ckCase.find_unused_parameters /\ ckCase.static_graph
    /\ \E r \in Ranks :
          /\ ckPc[r] = "passed" /\ ckIter[r] = n_iters
          /\ ckDdp[r].unused = <<>>
          /\ GradsPresent(r) /\ GradsEqual(r)

C7_DynamicModuleTrains ==
    (ckSite \in {"dynamic_module", "dynamic_weight_sharing"})
    => \A r \in Ranks :
          /\ CkNoError(r)
          /\ CkNotStuck(r)
          /\ ckPc[r] = "compare" => GradsEqual(r)

\* C7 witness: after the first iteration, which ran l2 only, the gradients
\* of l1 are None in both models and the assertion is about to pass; the
\* reducer had marked the parameters of l1 unused.
C7_Witness ==
    /\ ckSite = "dynamic_module"
    /\ \E r \in Ranks :
          /\ ckPc[r] = "compare" /\ ckIter[r] = 0
          /\ ckDdp[r].unused = <<1, 2>>
          /\ GradOf(ckDdp[r], 1) = None /\ ckModelGrad[r][1] = None
          /\ GradOf(ckDdp[r], 3) # None /\ GradOf(ckDdp[r], 3).n # 0
          /\ GradsEqual(r)

\* The forward calls each copy of the module has made on rank r when the
\* rank is in iteration k.
ForwardsOfModel(r) ==
    IF ckPc[r] \in {"zero_grad", "train_model"} THEN ckIter[r]
    ELSE IF ckPc[r] = "passed" THEN n_iters
    ELSE ckIter[r] + 1
ForwardsOfDdp(r) ==
    IF ckPc[r] \in {"zero_grad", "train_model", "ddp_forward"} THEN ckIter[r]
    ELSE IF ckPc[r] = "passed" THEN n_iters
    ELSE ckIter[r] + 1
\* The branch of DynamicCheckpointTwiceModule.forward in iteration k
BranchOf(k) == IF k % 2 = 0 THEN <<Layer(2, TRUE)>> ELSE <<Layer(1, TRUE)>>

\* C29: in the tests of the dynamic module the count of the reference copy
\* and the count of the DDP copy start at 0 and grow by exactly 1 per
\* iteration, the recomputation of the checkpointed layer in backward
\* included; at the start of iteration k both are k on every rank, and
\* both copies take the same branch: l2 when k is even, l1 when k is odd.
C29_CountsInStep ==
    (ckSite \in {"dynamic_module", "dynamic_weight_sharing"})
    => \A r \in Ranks :
          /\ ckModelCount[r] = ForwardsOfModel(r)
          /\ ckDdpCount[r] = ForwardsOfDdp(r)
          /\ ckPc[r] \in {"zero_grad", "train_model"} =>
                /\ ckModelCount[r] = ckIter[r] /\ ckDdpCount[r] = ckIter[r]
                /\ ModuleForward(ckCase.module, ckModelCount[r]) = BranchOf(ckIter[r])
                /\ ModuleForward(ckCase.module, ckDdpCount[r]) = BranchOf(ckIter[r])
          /\ ckPc[r] \in {"backward", "finalize", "compare"} => ckGraph[r] = BranchOf(ckIter[r])
          /\ ckPc[r] \notin {"raised", "failed"}

\* C29 witness: a rank is in the backward pass of iteration 3 of the
\* dynamic module, which recomputes l1, with both counts at 4, while the
\* other rank has run the reference copy only, with counts 4 and 3.
C29_Witness ==
    /\ ckSite = "dynamic_module"
    /\ \E r \in Ranks, q \in Ranks :
          /\ ckPc[r] = "backward" /\ ckIter[r] = 3 /\ ckEvents[r] # <<>>
          /\ ckGraph[r] = <<Layer(1, TRUE)>>
          /\ ckModelCount[r] = 4 /\ ckDdpCount[r] = 4
          /\ ckPc[q] = "ddp_forward" /\ ckIter[q] = 3
          /\ ckModelCount[q] = 4 /\ ckDdpCount[q] = 3

(***************************************************************************)
(* The shards of the global batch: the rows each rank gives its DDP model. *)
(***************************************************************************)
\* The rows r * b .. (r + 1) * b - 1 of a tensor, counted from 0 as the
\* code counts them, as the row numbers 1 .. n of a sequence
RowsOfRank(r, b) == {k + 1 : k \in (r * b) .. ((r + 1) * b - 1)}
\* The sets of rows are pairwise disjoint, of b rows each, and cover the
\* rows 1 .. n.
PartitionsRows(rowsOf, b, n) ==
    /\ \A r \in DOMAIN rowsOf : Cardinality(rowsOf[r]) = b
    /\ \A r \in DOMAIN rowsOf : \A q \in DOMAIN rowsOf : r # q => rowsOf[r] \cap rowsOf[q] = {}
    /\ UNION {rowsOf[r] : r \in DOMAIN rowsOf} = 1 .. n

\* C28: the shards of the ranks partition the global batch. The batch has
\* b * world_size rows, rank r uses the rows r * b .. (r + 1) * b - 1, the
\* shards are pairwise disjoint, of equal size and cover every row, with
\* b = local_batch_size in _test_ddp_with_process_group and b = 16 in
\* _prepare_dummy_data.
C28_ShardsPartitionBatch ==
    /\ \A r \in Ranks :
          /\ Len(input[r]) = local_batch_size * world_size
          /\ Len(target[r]) = local_batch_size * world_size
          /\ ShardRows(r, local_batch_size) = RowsOfRank(r, local_batch_size)
          /\ Shard(input[r], r, local_batch_size) =
                [i \in 1 .. local_batch_size |-> input[r][r * local_batch_size + i]]
          /\ Shard(target[r], r, local_batch_size) =
                [i \in 1 .. local_batch_size |-> target[r][r * local_batch_size + i]]
    /\ PartitionsRows([r \in Ranks |-> ShardRows(r, local_batch_size)], local_batch_size,
                      local_batch_size * world_size)
    /\ ddp_bs = 16
    /\ \A seed \in Seeds :
          /\ Len(DummyInput(seed)) = 16 * world_size
          /\ Len(DummyTarget(seed)) = 16 * world_size
          /\ \A r \in Ranks :
                /\ DdpInputs[seed][r] = [i \in 1 .. 16 |-> DummyInput(seed)[r * 16 + i]]
                /\ DdpTargets[seed][r] = [i \in 1 .. 16 |-> DummyTarget(seed)[r * 16 + i]]
    /\ PartitionsRows([r \in Ranks |-> {Offset(r) + i : i \in 1 .. ddp_bs}], 16, 16 * world_size)

\* C28 witness: with 2 devices per process, rank 1 has stepped its DDP
\* model on rows 2 and 3 of the 4 rows of the batch, which differ from the
\* rows 0 and 1 of rank 0.
C28_Witness ==
    /\ local_batch_size = 2
    /\ bucketSent[0][1] # <<>>
    /\ iteration[1] = 0
    /\ ShardRows(1, local_batch_size) = {3, 4}
    /\ Shard(input[1], 1, local_batch_size) # Shard(input[1], 0, local_batch_size)

(***************************************************************************)
(* AbstractCommTest: the sequence number of a process group. The group     *)
(* keeps one number per rank; a rank bumps its number when it issues a     *)
(* collective on the group, before the collective runs.                    *)
(***************************************************************************)
\* AbstractCommTest.world_size; the test classes that run the tests on
\* more ranks override it, up to MaxWorld ranks here.
comm_world_size == 2
MaxWorld == 4
WorldSizes == comm_world_size .. MaxWorld
\* dist.get_rank() of the processes of a test with world_size ws
RanksOf(ws) == 0 .. (ws - 1)

\* The sequence number a group may start from (rank 0 of the group draws
\* it and hands it to the others through the store), bounded here.
InitialNums == {0, 7}
\* No number: the store before rank 0 wrote, an empty slot of obj_list,
\* and initial_num of a rank outside the group (line 1001).
NoNum == -1

\* range(10) of line 1004
NumAllReduces == 10
\* The all_gather_object calls of _test_sequence_num_incremented: one for
\* initial_num, one per all_reduce, one for (rank, seq_num).
FinalRound == NumAllReduces + 1

SeqTests == {"default_group", "subgroup", "set_default_pg", "set_new_group"}
\* The tests that only read the number once the group is made.
SetTests == {"set_default_pg", "set_new_group"}

\* The ranks of process_group in each test.
GroupRanks(test, ws) ==
    CASE test \in {"default_group", "set_default_pg"} -> RanksOf(ws)
      [] test = "subgroup" -> {0, 1, 2}
      [] test = "set_new_group" -> {0, 1}
SeqGroup == GroupRanks(seqTest, seqWorld)

\* c10d._rank_not_in_group(process_group)
rank_not_in_group(r) == r \notin SeqGroup
\* dist.get_world_size(process_group): -1 outside the group
get_world_size(r) == IF rank_not_in_group(r) THEN -1 ELSE Cardinality(SeqGroup)
\* dist.get_rank(process_group): the groups of the tests are prefixes of
\* the ranks, so that the group rank is the rank.
get_rank(r) == IF rank_not_in_group(r) THEN -1 ELSE r

\* By how much the all_gather_object that collects the numbers bumps the
\* number it reports on: _test_sequence_num_incremented runs it on
\* verify_pg, a group of its own (lines 990-993); the set tests run it on
\* the group itself, as two all_gather calls, after the number was read.
GatherBumpsOnSameGroup(test) == 2
GatherBumpsOnce(test) == IF test \in SetTests THEN 2 ELSE 1
GatherBumps(test) == IF test \in SetTests THEN 2 ELSE 0

\* line 1018: the ranks that issue the extra asynchronous all_reduce
IssuesAsyncOnEveryRank(group_rank) == TRUE
IssuesAsync(group_rank) == group_rank \notin {0, 2}

SeqInit ==
    /\ seqTest \in SeqTests
    /\ seqWorld \in WorldSizes
    /\ GroupRanks(seqTest, seqWorld) \subseteq RanksOf(seqWorld)
    /\ seqStore = NoNum
    /\ seqNum = [r \in RanksOf(seqWorld) |-> NoNum]
    /\ seqInitial = [r \in RanksOf(seqWorld) |-> NoNum]
    /\ seqI = [r \in RanksOf(seqWorld) |-> 0]
    /\ seqIssued = [r \in RanksOf(seqWorld) |-> 0]
    /\ seqGather = [k \in 0 .. FinalRound |-> [r \in RanksOf(seqWorld) |-> NoNum]]
    /\ seqPc = [r \in RanksOf(seqWorld) |-> "new_group"]

\* init_process_group / new_group on group rank 0: the group draws its
\* sequence number and writes it to the store.
SetSequenceNumber(r) ==
    /\ seqPc[r] = "new_group"
    /\ get_rank(r) = 0
    /\ \E s \in InitialNums :
          /\ seqStore' = s
          /\ seqNum' = [seqNum EXCEPT ![r] = s]
    /\ seqPc' = [seqPc EXCEPT ![r] = "verify"]
    /\ UNCHANGED <<seqTest, seqWorld, seqInitial, seqI, seqIssued, seqGather>>
    /\ UNCHANGED seqOthers

\* init_process_group / new_group on the other ranks of the group: the
\* group waits for the number in the store and takes it.
GetSequenceNumber(r) ==
    /\ seqPc[r] = "new_group"
    /\ get_rank(r) > 0
    /\ seqStore # NoNum
    /\ seqNum' = [seqNum EXCEPT ![r] = seqStore]
    /\ seqPc' = [seqPc EXCEPT ![r] = "verify"]
    /\ UNCHANGED <<seqTest, seqWorld, seqStore, seqInitial, seqI, seqIssued, seqGather>>
    /\ UNCHANGED seqOthers

\* A rank outside the group: initial_num = -1 (line 1001); the set test
\* has nothing for it to do.
NotInGroup(r) ==
    /\ seqPc[r] = "new_group"
    /\ rank_not_in_group(r)
    /\ seqPc' = [seqPc EXCEPT ![r] = IF seqTest \in SetTests THEN "passed" ELSE "all_reduce"]
    /\ UNCHANGED <<seqTest, seqWorld, seqStore, seqNum, seqInitial, seqI, seqIssued,
                   seqGather>>
    /\ UNCHANGED seqOthers

\* _verify_sequence_number_across_pg, lines 980-983: the rank reads its
\* number and gives it to all_gather_object.
VerifySend(r) ==
    /\ seqPc[r] = "verify"
    /\ seqGather' = [seqGather EXCEPT ![seqI[r]][r] = seqNum[r]]
    /\ seqNum' = [seqNum EXCEPT ![r] = @ + GatherBumps(seqTest)]
    /\ seqPc' = [seqPc EXCEPT ![r] = "gathered"]
    /\ UNCHANGED <<seqTest, seqWorld, seqStore, seqInitial, seqI, seqIssued>>
    /\ UNCHANGED seqOthers

\* obj_list once every rank of the group has given its number
ObjList(k) == [m \in SeqGroup |-> seqGather[k][m]]
Gathered(k) == \A m \in SeqGroup : seqGather[k][m] # NoNum
Values(objs) == {objs[m] : m \in DOMAIN objs}

\* _verify_sequence_number_across_pg, lines 983-986, and what the caller
\* does with the result: lines 996-1002 for initial_num, lines 1008-1012
\* in the loop, lines 1082-1085 and 1091-1094 in the set tests.
VerifyReturn(r) ==
    /\ seqPc[r] = "gathered"
    /\ Gathered(seqI[r])
    /\ LET obj_list == ObjList(seqI[r])
           same == Cardinality(Values(obj_list)) = 1
           seq_num == obj_list[0]
           i == seqI[r] - 1
       IN  IF seqI[r] = 0
           THEN /\ seqInitial' = [seqInitial EXCEPT ![r] = seq_num]
                /\ seqPc' = [seqPc EXCEPT ![r] =
                       IF ~same THEN "failed_verify"
                       ELSE IF seqTest \in SetTests THEN "passed" ELSE "all_reduce"]
           ELSE /\ seqInitial' = seqInitial
                /\ seqPc' = [seqPc EXCEPT ![r] =
                       IF ~same \/ seqInitial[r] + i + 1 # seq_num THEN "failed_verify"
                       ELSE IF seqI[r] < NumAllReduces THEN "all_reduce"
                       ELSE IF get_world_size(r) > 2 THEN "async" ELSE "passed"]
    /\ UNCHANGED <<seqTest, seqWorld, seqStore, seqNum, seqI, seqIssued, seqGather>>
    /\ UNCHANGED seqOthers

\* line 1006, dist.all_reduce(t, group=process_group) on a rank of the
\* group: the group bumps its number and starts the collective.
AllReduce(r) ==
    /\ seqPc[r] = "all_reduce"
    /\ ~rank_not_in_group(r)
    /\ seqNum' = [seqNum EXCEPT ![r] = @ + 1]
    /\ seqIssued' = [seqIssued EXCEPT ![r] = @ + 1]
    /\ seqPc' = [seqPc EXCEPT ![r] = "reducing"]
    /\ UNCHANGED <<seqTest, seqWorld, seqStore, seqInitial, seqI, seqGather>>
    /\ UNCHANGED seqOthers

\* The all_reduce returns when every rank of the group has joined it.
AllReduceReturn(r) ==
    /\ seqPc[r] = "reducing"
    /\ \A m \in SeqGroup : seqIssued[m] >= seqIssued[r]
    /\ seqI' = [seqI EXCEPT ![r] = @ + 1]
    /\ seqPc' = [seqPc EXCEPT ![r] = "verify"]
    /\ UNCHANGED <<seqTest, seqWorld, seqStore, seqNum, seqInitial, seqIssued, seqGather>>
    /\ UNCHANGED seqOthers

\* line 1006 on a rank outside the group: all_reduce warns and returns;
\* the rank has no number to verify, and leaves the test after the loop
\* since dist.get_world_size(process_group) is -1.
AllReduceNotInGroup(r) ==
    /\ seqPc[r] = "all_reduce"
    /\ rank_not_in_group(r)
    /\ seqI' = [seqI EXCEPT ![r] = @ + 1]
    /\ seqPc' = [seqPc EXCEPT ![r] =
                    IF seqI[r] + 1 < NumAllReduces THEN "all_reduce" ELSE "passed"]
    /\ UNCHANGED <<seqTest, seqWorld, seqStore, seqNum, seqInitial, seqIssued, seqGather>>
    /\ UNCHANGED seqOthers

\* lines 1016-1019: the ranks other than 0 and 2 of a group of more than
\* 2 issue an all_reduce with async_op=True and do not wait for it.
AsyncAllReduce(r) ==
    /\ seqPc[r] = "async"
    /\ IF IssuesAsync(get_rank(r))
       THEN /\ seqNum' = [seqNum EXCEPT ![r] = @ + 1]
            /\ seqIssued' = [seqIssued EXCEPT ![r] = @ + 1]
       ELSE UNCHANGED <<seqNum, seqIssued>>
    /\ seqPc' = [seqPc EXCEPT ![r] = "lagging"]
    /\ UNCHANGED <<seqTest, seqWorld, seqStore, seqInitial, seqI, seqGather>>
    /\ UNCHANGED seqOthers

\* lines 1021-1025: the rank gives (rank, seq_num) to all_gather_object on
\* verify_pg.
LaggingSend(r) ==
    /\ seqPc[r] = "lagging"
    /\ seqGather' = [seqGather EXCEPT ![FinalRound][r] = seqNum[r]]
    /\ seqPc' = [seqPc EXCEPT ![r] = "lagging_gathered"]
    /\ UNCHANGED <<seqTest, seqWorld, seqStore, seqNum, seqInitial, seqI, seqIssued>>
    /\ UNCHANGED seqOthers

\* lines 1026-1035: the assertions on rank_to_seq_num
LaggingByOne(rank_to_seq_num) ==
    LET expected_same == {rank_to_seq_num[i] : i \in DOMAIN rank_to_seq_num \ {0, 2}}
    IN  /\ Cardinality(Values(rank_to_seq_num)) = 2
        /\ rank_to_seq_num[0] = rank_to_seq_num[2]
        /\ Cardinality(expected_same) = 1
        /\ rank_to_seq_num[0] + 1 = rank_to_seq_num[1]

LaggingReturn(r) ==
    /\ seqPc[r] = "lagging_gathered"
    /\ Gathered(FinalRound)
    /\ seqPc' = [seqPc EXCEPT ![r] =
                    IF LaggingByOne(ObjList(FinalRound)) THEN "passed"
                    ELSE "failed_lagging"]
    /\ UNCHANGED <<seqTest, seqWorld, seqStore, seqNum, seqInitial, seqI, seqIssued,
                   seqGather>>
    /\ UNCHANGED seqOthers

SeqNext ==
    \E r \in RanksOf(seqWorld) :
        \/ SetSequenceNumber(r)
        \/ GetSequenceNumber(r)
        \/ NotInGroup(r)
        \/ VerifySend(r)
        \/ VerifyReturn(r)
        \/ AllReduce(r)
        \/ AllReduceReturn(r)
        \/ AllReduceNotInGroup(r)
        \/ AsyncAllReduce(r)
        \/ LaggingSend(r)
        \/ LaggingReturn(r)

\* The test runs alone in its processes.
SeqStart == SeqInit /\ DdpIdle /\ CkIdle /\ WarnIdle /\ BarIdle /\ RegIdle /\ OpIdle /\ BktIdle /\ GpuIdle /\ ToIdle /\ DbgIdle /\ PsgIdle /\ CtIdle /\ ExIdle /\ BfIdle
SpecSeq == SeqStart /\ [][SeqNext]_vars

\* C8: all ranks of a process group (the default group, or a subgroup made
\* by new_group) report the same sequence number right after the group is
\* made, and after the k-th all_reduce that every rank of the group issued
\* on it (k = 1..10) every rank of the group reports exactly initial + k.
C8_SequenceNumberIncremented ==
    /\ \A r \in RanksOf(seqWorld) : seqPc[r] # "failed_verify"
    /\ \A r \in SeqGroup :
          /\ seqPc[r] = "verify" => seqNum[r] = seqStore + seqI[r]
          /\ seqInitial[r] \in {NoNum, seqStore}
    /\ \A k \in 0 .. NumAllReduces : \A m \in SeqGroup :
          seqGather[k][m] # NoNum => seqGather[k][m] = seqStore + k

\* C8 witness: in the subgroup test on 4 ranks, with a number that did not
\* start from 0, the 3 ranks of the group have reported after the 10th
\* all_reduce, all of them initial + 10, and rank 0 has taken the reports.
C8_Witness ==
    /\ seqTest = "subgroup" /\ seqWorld = 4 /\ seqStore = 7
    /\ Gathered(NumAllReduces)
    /\ Values(ObjList(NumAllReduces)) = {seqStore + NumAllReduces}
    /\ seqInitial[0] = seqStore
    /\ seqPc[0] = "async"

\* Rank r issues a collective on process_group in the step.
IssuesOnGroup(r) == seqIssued'[r] = seqIssued[r] + 1
\* Rank r gives its number to all_gather_object on verify_pg in the step.
GathersOnVerifyGroup(r) ==
    seqTest \notin SetTests /\ seqPc[r] \in {"verify", "lagging"} /\ seqPc'[r] # seqPc[r]

\* C24: in _test_sequence_num_incremented the all_gather_object calls on
\* verify_pg leave the sequence number of process_group as it is on the
\* rank that calls them; once the group is made its number changes only
\* when the rank issues a collective on process_group, by one.
C24_VerifyGroupLeavesNumber ==
    [][\A r \in RanksOf(seqWorld) :
          /\ GathersOnVerifyGroup(r) => seqNum'[r] = seqNum[r]
          /\ (seqTest \notin SetTests /\ seqNum[r] # NoNum /\ seqNum'[r] # seqNum[r]) =>
                (IssuesOnGroup(r) /\ seqNum'[r] = seqNum[r] + 1)]_vars

\* C24 witness: rank 1 of the default group has given the number it held
\* after 3 all_reduce calls to all_gather_object on verify_pg, and holds
\* the same number after the call.
C24_Witness ==
    /\ seqTest = "default_group"
    /\ seqPc[1] = "gathered" /\ seqI[1] = 3
    /\ seqGather[3][1] = seqNum[1]
    /\ seqNum[1] = seqStore + 3

\* Every rank of the group is past the extra all_reduce of line 1019.
AfterAsync ==
    \A m \in SeqGroup :
        /\ seqI[m] = NumAllReduces
        /\ seqPc[m] \in {"lagging", "lagging_gathered", "passed", "failed_lagging"}

\* C9: in a group of more than 2 ranks whose ranks have issued the same
\* collectives, once every rank but group ranks 0 and 2 has issued one more
\* all_reduce with async_op=True, not waited for, the ranks hold exactly two
\* distinct sequence numbers: ranks 0 and 2 the same one, all other ranks a
\* common one, which is exactly one greater.
C9_LaggingByOne ==
    /\ \A r \in RanksOf(seqWorld) : seqPc[r] # "failed_lagging"
    /\ \A r \in SeqGroup : seqPc[r] = "async" =>
          /\ Cardinality(SeqGroup) > 2
          /\ seqIssued[r] = NumAllReduces
    /\ (Cardinality(SeqGroup) > 2 /\ AfterAsync) =>
          /\ Cardinality({seqNum[m] : m \in SeqGroup}) = 2
          /\ seqNum[0] = seqNum[2]
          /\ \A m \in SeqGroup \ {0, 2} : seqNum[m] = seqNum[0] + 1

\* C9 witness: in the default group of 4 ranks, ranks 1 and 3 have issued
\* the extra all_reduce, which never completes, and every rank has passed
\* the assertions with 0 and 2 at initial + 10 and 1 and 3 at initial + 11.
C9_Witness ==
    /\ seqTest = "default_group" /\ seqWorld = 4
    /\ \A r \in RanksOf(seqWorld) : seqPc[r] = "passed"
    /\ seqIssued = [r \in RanksOf(seqWorld) |-> IF r \in {1, 3} THEN 11 ELSE 10]
    /\ seqNum = [r \in RanksOf(seqWorld) |-> seqStore + seqIssued[r]]

(***************************************************************************)
(* AbstractCommTest._test_warn_not_in_group: collectives called by a rank  *)
(* that is not in the group.                                               *)
(***************************************************************************)
\* line 1103: in_group_ranks, the even ranks
InGroupRanksOdd(ws) == {x \in RanksOf(ws) : x % 2 = 1}
InGroupRanks(ws) == {x \in RanksOf(ws) : x % 2 = 0}

\* lines 1108-1123: the collectives each rank calls on the group, in order
Ops == <<"all_gather", "all_reduce", "barrier", "broadcast">>

\* _warn_not_in_group(op_name): warnings.warn of the message 'Running
\* {op_name} on global rank {rank} which does not belong to the given
\* group.', a UserWarning.
Warning(op_name, rank) ==
    [category |-> "UserWarning", running |-> op_name, global_rank |-> rank,
     which |-> "does not belong to"]

\* assertWarnsOnceRegex(UserWarning, '.*{op}.*does not belong to.*'): the
\* warnings caught in the block hold exactly one that matches.
Matches(w, op_name) ==
    w.category = "UserWarning" /\ w.running = op_name /\ w.which = "does not belong to"
WarnsOnce(ws, op_name) ==
    Cardinality({i \in 1 .. Len(ws) : Matches(ws[i], op_name)}) = 1

WarnInit ==
    /\ warnWorld \in WorldSizes
    /\ warnCall = [r \in RanksOf(warnWorld) |-> 0]
    /\ warnJoined = [j \in 1 .. Len(Ops) |-> {}]
    /\ warnings = [r \in RanksOf(warnWorld) |-> <<>>]
    /\ warnPc = [r \in RanksOf(warnWorld) |-> "call"]

\* A collective called on a rank outside the group: the call warns and
\* returns (lines 1108-1115, under assertWarnsOnceRegex).
WarnNotInGroup(r) ==
    /\ warnPc[r] = "call"
    /\ r \notin InGroupRanks(warnWorld)
    /\ LET op_name == Ops[warnCall[r] + 1]
           caught == <<Warning(op_name, r)>>
       IN  /\ warnings' = [warnings EXCEPT ![r] = Append(@, caught)]
           /\ warnPc' = [warnPc EXCEPT ![r] =
                  IF ~WarnsOnce(caught, op_name) THEN "failed"
                  ELSE IF warnCall[r] + 1 < Len(Ops) THEN "call" ELSE "passed"]
    /\ warnCall' = [warnCall EXCEPT ![r] = @ + 1]
    /\ UNCHANGED <<warnWorld, warnJoined>>
    /\ UNCHANGED warnOthers

\* A collective called on a rank of the group (lines 1117-1120): the rank
\* enters the collective.
CollectiveEnter(r) ==
    /\ warnPc[r] = "call"
    /\ r \in InGroupRanks(warnWorld)
    /\ warnJoined' = [warnJoined EXCEPT ![warnCall[r] + 1] = @ \cup {r}]
    /\ warnings' = [warnings EXCEPT ![r] = Append(@, <<>>)]
    /\ warnPc' = [warnPc EXCEPT ![r] = "in_collective"]
    /\ UNCHANGED <<warnWorld, warnCall>>
    /\ UNCHANGED warnOthers

\* The collective returns once every rank of the group has entered it.
CollectiveReturn(r) ==
    /\ warnPc[r] = "in_collective"
    /\ InGroupRanks(warnWorld) \subseteq warnJoined[warnCall[r] + 1]
    /\ warnCall' = [warnCall EXCEPT ![r] = @ + 1]
    /\ warnPc' = [warnPc EXCEPT ![r] =
                     IF warnCall[r] + 1 < Len(Ops) THEN "call" ELSE "passed"]
    /\ UNCHANGED <<warnWorld, warnJoined, warnings>>
    /\ UNCHANGED warnOthers

WarnNext ==
    \E r \in RanksOf(warnWorld) :
        \/ WarnNotInGroup(r)
        \/ CollectiveEnter(r)
        \/ CollectiveReturn(r)

\* The test runs alone in its processes.
WarnStart == WarnInit /\ DdpIdle /\ CkIdle /\ SeqIdle /\ BarIdle /\ RegIdle /\ OpIdle /\ BktIdle /\ GpuIdle /\ ToIdle /\ DbgIdle /\ PsgIdle /\ CtIdle /\ ExIdle /\ BfIdle
SpecWarn == WarnStart /\ [][WarnNext]_vars

\* C10: a rank that is not in the group and calls all_gather, all_reduce,
\* barrier or broadcast on it gets, per call, exactly one UserWarning that
\* names the operation and says that the rank 'does not belong to' the
\* group, and returns without taking part and without waiting for any
\* rank; the ranks of the group, the even ranks, complete the same four
\* collectives among themselves.
C10_WarnNotInGroup ==
    \A r \in RanksOf(warnWorld) :
        /\ warnPc[r] # "failed"
        /\ Len(warnings[r]) <= Len(Ops)
        /\ IF r % 2 = 0
           THEN /\ \A j \in 1 .. Len(warnings[r]) : warnings[r][j] = <<>> /\ r \in warnJoined[j]
                /\ \A j \in 1 .. warnCall[r] :
                      warnJoined[j] = {m \in RanksOf(warnWorld) : m % 2 = 0}
                /\ warnPc[r] = "call" => ENABLED CollectiveEnter(r)
                /\ (/\ warnPc[r] = "in_collective"
                    /\ \A m \in RanksOf(warnWorld) :
                          m % 2 = 0 => m \in warnJoined[warnCall[r] + 1])
                       => ENABLED CollectiveReturn(r)
                /\ warnPc[r] = "passed" <=> warnCall[r] = Len(Ops)
           ELSE /\ Len(warnings[r]) = warnCall[r]
                /\ \A j \in 1 .. Len(warnings[r]) :
                      /\ Len(warnings[r][j]) = 1
                      /\ warnings[r][j][1].category = "UserWarning"
                      /\ warnings[r][j][1].running = Ops[j]
                      /\ warnings[r][j][1].which = "does not belong to"
                /\ \A j \in 1 .. Len(Ops) : r \notin warnJoined[j]
                /\ warnPc[r] \in {"call", "passed"}
                /\ warnPc[r] = "call" => ENABLED WarnNotInGroup(r)
                /\ warnPc[r] = "passed" <=> warnCall[r] = Len(Ops)

\* C10 witness: of 4 ranks, ranks 1 and 3 have made the four calls and got
\* the four warnings while rank 0 has not entered the first collective and
\* rank 2 waits in it.
C10_Witness ==
    /\ warnWorld = 4
    /\ warnPc = [r \in RanksOf(warnWorld) |->
                    CASE r = 0 -> "call" [] r = 2 -> "in_collective" [] OTHER -> "passed"]
    /\ warnCall[0] = 0 /\ warnCall[2] = 0
    /\ \A r \in {1, 3} : \A j \in 1 .. Len(Ops) : warnings[r][j] = <<Warning(Ops[j], r)>>

(***************************************************************************)
(* DummyProcessGroup.barrier: rank 0 polls a counter in the default store  *)
(* until the other ranks have added to it. The key is the same for every   *)
(* call and the counter is never reset.                                    *)
(***************************************************************************)
\* The barrier calls a process makes on one store, at most (the tests make 1).
MaxBarrierCalls == 2

\* self.size() of the group, from 1 rank up to MaxWorld
GroupSizes == 1 .. MaxWorld
\* The most ranks of a group whose barrier is followed step by step
MaxBarrierSize == 3
BarrierSizes == 1 .. MaxBarrierSize

BarInit ==
    /\ barSize \in BarrierSizes
    /\ barCalls \in 1 .. MaxBarrierCalls
    /\ barStore = 0
    /\ barWorkerCount = 0
    /\ barAdds = [r \in RanksOf(barSize) |-> 0]
    /\ barReturned = [r \in RanksOf(barSize) |-> 0]
    /\ barPc = [r \in RanksOf(barSize) |-> "test"]

\* dist.barrier() of lines 1307 and 1327 enters DummyProcessGroup.barrier:
\* lines 1202-1205, rank 0 sets worker_count = 0.
BarrierEnter(r) ==
    /\ barPc[r] = "test"
    /\ barPc' = [barPc EXCEPT ![r] = IF r = 0 THEN "while" ELSE "add"]
    /\ barWorkerCount' = IF r = 0 THEN 0 ELSE barWorkerCount
    /\ UNCHANGED <<barSize, barCalls, barStore, barAdds, barReturned>>
    /\ UNCHANGED barOthers

\* lines 1213-1214 on rank 0: while worker_count < self.size() - 1:
\* worker_count = store.add(key, 0)
BarrierPoll(r) ==
    /\ barPc[r] = "while"
    /\ barWorkerCount < barSize - 1
    /\ barWorkerCount' = barStore
    /\ UNCHANGED <<barSize, barCalls, barStore, barAdds, barReturned, barPc>>
    /\ UNCHANGED barOthers

BarrierAddZero(r) ==
    /\ barPc[r] = "add"
    /\ barAdds' = [barAdds EXCEPT ![r] = @ + 1]
    /\ barPc' = [barPc EXCEPT ![r] = "return"]
    /\ UNCHANGED <<barSize, barCalls, barStore, barWorkerCount, barReturned>>
    /\ UNCHANGED barOthers
\* lines 1215-1216 on the other ranks: store.add(key, 1)
BarrierAdd(r) ==
    /\ barPc[r] = "add"
    /\ barStore' = barStore + 1
    /\ barAdds' = [barAdds EXCEPT ![r] = @ + 1]
    /\ barPc' = [barPc EXCEPT ![r] = "return"]
    /\ UNCHANGED <<barSize, barCalls, barWorkerCount, barReturned>>
    /\ UNCHANGED barOthers

\* line 1218: return DummyWork(); after its last barrier the process ends.
BarrierReturn(r) ==
    /\ \/ barPc[r] = "return"
       \/ barPc[r] = "while" /\ ~(barWorkerCount < barSize - 1)
    /\ barReturned' = [barReturned EXCEPT ![r] = @ + 1]
    /\ barPc' = [barPc EXCEPT ![r] =
                    IF barReturned[r] + 1 < barCalls THEN "test" ELSE "exited"]
    /\ UNCHANGED <<barSize, barCalls, barStore, barWorkerCount, barAdds>>
    /\ UNCHANGED barOthers

BarNext ==
    \E r \in RanksOf(barSize) :
        \/ BarrierEnter(r)
        \/ BarrierPoll(r)
        \/ BarrierAdd(r)
        \/ BarrierReturn(r)

\* The test runs alone in its processes.
BarStart == BarInit /\ DdpIdle /\ CkIdle /\ SeqIdle /\ WarnIdle /\ RegIdle /\ OpIdle /\ BktIdle /\ GpuIdle /\ ToIdle /\ DbgIdle /\ PsgIdle /\ CtIdle /\ ExIdle /\ BfIdle
SpecBar == BarStart /\ [][BarNext]_vars

\* Rank 0 has returned from its c-th barrier call only after every other
\* rank made its c-th store.add(key, 1).
WaitedFor(c) ==
    barReturned[0] >= c => \A r \in RanksOf(barSize) \ {0} : barAdds[r] >= c

\* C11: for every call of DummyProcessGroup.barrier in a group of size
\* ranks, rank 0 does not return from that call until each of the other
\* size - 1 ranks has performed its store.add(key, 1) for that call, so
\* that rank 0 does not exit before the other ranks have finished using
\* the store.
C11_RankZeroWaitsInEveryCall ==
    /\ \A c \in 1 .. barCalls : WaitedFor(c)
    /\ barPc[0] = "exited" => \A r \in RanksOf(barSize) \ {0} : barAdds[r] = barCalls

\* What holds of the code: rank 0 waits when the processes call barrier
\* once on the store, as the tests do.
SingleBarrierWaits ==
    barCalls = 1 =>
        /\ WaitedFor(1)
        /\ barPc[0] = "exited" => \A r \in RanksOf(barSize) \ {0} : barAdds[r] = 1

\* Each process goes on running: it enters the barrier, the store answers
\* its store.add, and the call returns.
BarFairness ==
    \A r \in RanksOf(MaxBarrierSize) :
        /\ WF_vars(r \in RanksOf(barSize) /\ BarrierEnter(r))
        /\ WF_vars(r \in RanksOf(barSize) /\ BarrierPoll(r))
        /\ WF_vars(r \in RanksOf(barSize) /\ BarrierAdd(r))
        /\ WF_vars(r \in RanksOf(barSize) /\ BarrierReturn(r))
SpecBarFair == BarStart /\ [][BarNext]_vars /\ BarFairness

\* C26: when each other rank makes its store.add(key, 1) and the store
\* goes on answering, the loop of rank 0 ends; in a group of 1 rank the
\* loop makes no turn, so that rank 0 returns without a store.add.
C26_BarrierLoopTerminates ==
    /\ (barPc[0] = "while") ~> (barPc[0] # "while")
    /\ [](barSize = 1 => (barStore = 0 /\ ~ENABLED BarrierPoll(0)))

\* C26 witness: in a group of 3 ranks rank 0 has left the loop of its
\* barrier call with worker_count 2, after the adds of ranks 1 and 2.
C26_Witness ==
    /\ barSize = 3 /\ barCalls = 1
    /\ barPc[0] = "exited"
    /\ barWorkerCount = 2
    /\ barAdds = [r \in RanksOf(barSize) |-> IF r = 0 THEN 0 ELSE 1]

(***************************************************************************)
(* DummyProcessGroup: the operations of the dummy backend. A tensor is the *)
(* sequence of its elements; pg is the group object, with pg.rank and      *)
(* pg.size. Each operation gives the tensors it leaves behind.             *)
(***************************************************************************)
\* DummyProcessGroup(rank, size)
DummyProcessGroup(rank, size) == [name |-> "Dummy", rank |-> rank, size |-> size]

\* tensor.add_(c)
add_(tensor, c) == [i \in DOMAIN tensor |-> tensor[i] + c]
\* zip(a, b) stops at the shorter of the two
ZipLen(a, b) == IF Len(a) < Len(b) THEN Len(a) ELSE Len(b)

\* lines 1188-1193: every tensor of the k-th output list becomes a copy of
\* the k-th input tensor; what zip leaves out stays as it was.
allgather(pg, output_tensor_lists, input_tensor_list) ==
    [k \in DOMAIN output_tensor_lists |->
        IF k <= ZipLen(output_tensor_lists, input_tensor_list)
        THEN [j \in DOMAIN output_tensor_lists[k] |-> input_tensor_list[k]]
        ELSE output_tensor_lists[k]]

\* lines 1195-1199
allreduceAddsOne(pg, tensor_list) == [k \in DOMAIN tensor_list |-> add_(tensor_list[k], 1)]
allreduce(pg, tensor_list) == [k \in DOMAIN tensor_list |-> add_(tensor_list[k], 2)]

\* lines 1220-1224
broadcast(pg, tensor_list) == [k \in DOMAIN tensor_list |-> add_(tensor_list[k], 1)]

\* lines 1226-1230: the k-th output tensor becomes a copy of entry
\* self.rank() of the k-th input list.
reduce_scatterSums(pg, output_tensor_list, input_tensor_lists) ==
    [k \in DOMAIN output_tensor_list |->
        IF k <= ZipLen(output_tensor_list, input_tensor_lists)
        THEN [i \in DOMAIN input_tensor_lists[k][1] |->
                 IntSeqSum([j \in DOMAIN input_tensor_lists[k] |-> input_tensor_lists[k][j][i]])]
        ELSE output_tensor_list[k]]
reduce_scatter(pg, output_tensor_list, input_tensor_lists) ==
    [k \in DOMAIN output_tensor_list |->
        IF k <= ZipLen(output_tensor_list, input_tensor_lists)
        THEN input_tensor_lists[k][pg.rank + 1]
        ELSE output_tensor_list[k]]

\* lines 1232-1236
send(pg, tensor_list, dst, tag) == [k \in DOMAIN tensor_list |-> add_(tensor_list[k], 1)]

\* lines 1238-1242
recv(pg, tensor_list, src, tag) == [k \in DOMAIN tensor_list |-> add_(tensor_list[k], 2)]

(***************************************************************************)
(* PythonProcessGroupExtensionTest: a backend registered from Python. A    *)
(* string is the sequence of its characters.                               *)
(***************************************************************************)
LowerCase == <<"a", "b", "c", "d", "e", "f", "g", "h", "i", "j", "k", "l", "m",
               "n", "o", "p", "q", "r", "s", "t", "u", "v", "w", "x", "y", "z">>
UpperCase == <<"A", "B", "C", "D", "E", "F", "G", "H", "I", "J", "K", "L", "M",
               "N", "O", "P", "Q", "R", "S", "T", "U", "V", "W", "X", "Y", "Z">>
\* str.upper() and str.lower()
UpperChar(ch) ==
    IF \E i \in DOMAIN LowerCase : LowerCase[i] = ch
    THEN UpperCase[CHOOSE i \in DOMAIN LowerCase : LowerCase[i] = ch] ELSE ch
LowerChar(ch) ==
    IF \E i \in DOMAIN UpperCase : UpperCase[i] = ch
    THEN LowerCase[CHOOSE i \in DOMAIN UpperCase : UpperCase[i] = ch] ELSE ch
upper(str) == [i \in DOMAIN str |-> UpperChar(str[i])]
lower(str) == [i \in DOMAIN str |-> LowerChar(str[i])]

\* "dummy" of lines 1262, 1277 and 1311, and other spellings of the name
BackendNames == {<<"d", "u", "m", "m", "y">>, <<"D", "u", "m", "m", "y">>,
                 <<"D", "U", "M", "M", "Y">>}
\* "DUMMY" of lines 1266 and 1268
DUMMY == <<"D", "U", "M", "M", "Y">>

\* The string attributes class Backend has from the start.
BuiltinBackends ==
    (<<"U", "N", "D", "E", "F", "I", "N", "E", "D">> :>
         <<"u", "n", "d", "e", "f", "i", "n", "e", "d">>)
    @@ (<<"G", "L", "O", "O">> :> <<"g", "l", "o", "o">>)
    @@ (<<"N", "C", "C", "L">> :> <<"n", "c", "c", "l">>)
    @@ (<<"M", "P", "I">> :> <<"m", "p", "i">>)
    @@ (<<"T", "C", "P">> :> <<"t", "c", "p">>)

\* Backend.register_backend(name, func): setattr(Backend, name.upper(),
\* name.upper()); Backend._plugins[name.upper()] = func
register_backend_attrs(attrs, name) == (upper(name) :> upper(name)) @@ attrs
register_backend_plugins(plugins, name, func) == (upper(name) :> func) @@ plugins

\* Backend(name): the registered spelling of a backend that is not built
\* in; "undefined" when class Backend has no attribute name.upper().
Backend(attrs, name) ==
    IF upper(name) \notin DOMAIN attrs THEN attrs[<<"U", "N", "D", "E", "F", "I", "N", "E", "D">>]
    ELSE IF attrs[upper(name)] \in {BuiltinBackends[k] : k \in DOMAIN BuiltinBackends}
         THEN attrs[upper(name)]
         ELSE name

\* lines 1272-1274, PythonProcessGroupExtensionTest.create_dummy
create_dummyOnRankZero(store, rank, size, timeout) == DummyProcessGroup(0, size)
create_dummy(store, rank, size, timeout) == DummyProcessGroup(rank, size)

\* A call of the function a plugin entry names.
CallPlugin(func, store, rank, size, timeout) ==
    CASE func = "create_dummy" -> create_dummy(store, rank, size, timeout)

NoGroup == [name |-> "", rank |-> -1, size |-> -1]

\* The steps of the three tests.
RegTests == {"test_backend_class_attr", "test_collectives", "test_send_recv"}
Steps(test) ==
    CASE test = "test_backend_class_attr" -> <<"register_backend", "assert_class_attr">>
      [] test = "test_collectives" ->
            <<"register_backend", "init_process_group", "all_gather", "all_reduce",
              "broadcast", "reduce_scatter", "barrier", "destroy_process_group">>
      [] test = "test_send_recv" ->
            <<"register_backend", "init_process_group", "send", "recv", "barrier">>

\* torch.ones(2, 2) * v as the sequence of its 2 * 2 elements
Numel == 4
Full(v) == [i \in 1 .. Numel |-> v]

RegInit ==
    /\ regTest \in RegTests
    /\ regWorld \in GroupSizes
    /\ regName \in BackendNames
    /\ regAttrs = [r \in RanksOf(regWorld) |-> BuiltinBackends]
    /\ regPlugins = [r \in RanksOf(regWorld) |-> <<>>]
    /\ regPg = [r \in RanksOf(regWorld) |-> NoGroup]
    /\ regCreated = [r \in RanksOf(regWorld) |-> <<>>]
    /\ regServed = [r \in RanksOf(regWorld) |-> <<>>]
    /\ regStore = [init |-> 0, barrier |-> 0]
    /\ regPc = [r \in RanksOf(regWorld) |-> 1]

\* The step rank r is at; "passed" after the last one.
StepOf(r) ==
    IF regPc[r] \in DOMAIN Steps(regTest) THEN Steps(regTest)[regPc[r]]
    ELSE IF regPc[r] = 0 THEN "failed" ELSE "passed"
\* The test goes on when the assertion of the step holds.
Advance(r, ok) == regPc' = [regPc EXCEPT ![r] = IF ok THEN @ + 1 ELSE 0]

\* lines 1262-1265, 1277, 1311
RegisterBackend(r) ==
    /\ StepOf(r) = "register_backend"
    /\ regAttrs' = [regAttrs EXCEPT ![r] = register_backend_attrs(@, regName)]
    /\ regPlugins' = [regPlugins EXCEPT ![r] =
                         register_backend_plugins(@, regName, "create_dummy")]
    /\ Advance(r, TRUE)
    /\ UNCHANGED <<regTest, regWorld, regName, regPg, regCreated, regServed, regStore>>
    /\ UNCHANGED regOthers

\* lines 1266-1270: Backend.DUMMY == "DUMMY" and Backend._plugins["DUMMY"]
\* == create_dummy
AssertClassAttr(r) ==
    /\ StepOf(r) = "assert_class_attr"
    /\ Advance(r, /\ DUMMY \in DOMAIN regAttrs[r]
                  /\ regAttrs[r][DUMMY] = DUMMY
                  /\ DUMMY \in DOMAIN regPlugins[r]
                  /\ regPlugins[r][DUMMY] = "create_dummy")
    /\ UNCHANGED <<regTest, regWorld, regName, regAttrs, regPlugins, regPg, regCreated,
                   regServed, regStore>>
    /\ UNCHANGED regOthers

\* The arguments init_process_group gives the registered function.
CreateArgs(r) ==
    [store |-> "default_store", rank |-> r, size |-> regWorld, timeout |-> "default_pg_timeout"]

\* lines 1279-1281, 1313-1315: init_process_group(name, rank=self.rank,
\* world_size=self.world_size) looks the backend up, calls its plugin and
\* makes the result the default group; ValueError for an unknown backend.
InitProcessGroup(r) ==
    /\ StepOf(r) = "init_process_group"
    /\ regPg[r] = NoGroup
    /\ LET backend == Backend(regAttrs[r], regName)
           known == /\ upper(regName) \in DOMAIN regAttrs[r]
                    /\ upper(backend) \in DOMAIN regPlugins[r]
           a == CreateArgs(r)
           func == regPlugins[r][upper(backend)]
       IN  IF known
           THEN /\ regPg' = [regPg EXCEPT ![r] =
                                CallPlugin(func, a.store, a.rank, a.size, a.timeout)]
                /\ regCreated' = [regCreated EXCEPT ![r] = Append(@, [func |-> func] @@ a)]
                /\ regStore' = [regStore EXCEPT !.init = @ + 1]
                /\ UNCHANGED regPc
           ELSE /\ Advance(r, FALSE)
                /\ UNCHANGED <<regPg, regCreated, regStore>>
    /\ UNCHANGED <<regTest, regWorld, regName, regAttrs, regPlugins, regServed>>
    /\ UNCHANGED regOthers

\* The end of init_process_group: _store_based_barrier returns when every
\* rank has made its group.
InitProcessGroupReturn(r) ==
    /\ StepOf(r) = "init_process_group"
    /\ regPg[r] # NoGroup
    /\ regStore.init = regWorld
    /\ Advance(r, TRUE)
    /\ UNCHANGED <<regTest, regWorld, regName, regAttrs, regPlugins, regPg, regCreated,
                   regServed, regStore>>
    /\ UNCHANGED regOthers

\* The call of the default group that dist.<op> makes with the tensors of
\* the test, and the assertEqual that follows it.
CollectiveOk(op, pg, r) ==
    CASE op = "all_gather" ->
            LET input_tensor == Full(7)
                output_tensor_list == [k \in 1 .. regWorld |-> Full(0)]
                out == allgather(pg, <<output_tensor_list>>, <<input_tensor>>)[1]
            IN  \A k \in DOMAIN out : out[k] = input_tensor
      [] op = "all_reduce" -> allreduce(pg, <<Full(7)>>)[1] = Full(7 + 2)
      [] op = "broadcast" -> broadcast(pg, <<Full(0)>>)[1] = Full(1)
      [] op = "reduce_scatter" ->
            LET input_tensor_list == [k \in 1 .. regWorld |-> Full(1)]
            IN  reduce_scatter(pg, <<Full(0)>>, <<input_tensor_list>>)[1] = Full(0 + 1)
      [] op = "send" -> send(pg, <<Full(0)>>, (r + 1) % regWorld, 0)[1] = Full(0 + 1)
      [] op = "recv" -> recv(pg, <<Full(0)>>, (r + 1) % regWorld, 0)[1] = Full(0 + 2)

CollectiveSendMeetsRecv(r) ==
    /\ StepOf(r) \in {"all_gather", "all_reduce", "broadcast", "reduce_scatter", "send", "recv"}
    /\ StepOf(r) = "send" => StepOf((r + 1) % regWorld) = "recv"
    /\ regServed' = [regServed EXCEPT ![r] = Append(@, [op |-> StepOf(r), by |-> regPg[r]])]
    /\ Advance(r, CollectiveOk(StepOf(r), regPg[r], r))
    /\ UNCHANGED <<regTest, regWorld, regName, regAttrs, regPlugins, regPg, regCreated,
                   regStore>>
    /\ UNCHANGED regOthers
\* lines 1283-1305 and 1317-1325: a collective on the default group
Collective(r) ==
    /\ StepOf(r) \in {"all_gather", "all_reduce", "broadcast", "reduce_scatter", "send", "recv"}
    /\ regServed' = [regServed EXCEPT ![r] = Append(@, [op |-> StepOf(r), by |-> regPg[r]])]
    /\ Advance(r, CollectiveOk(StepOf(r), regPg[r], r))
    /\ UNCHANGED <<regTest, regWorld, regName, regAttrs, regPlugins, regPg, regCreated,
                   regStore>>
    /\ UNCHANGED regOthers

\* lines 1307 and 1327, dist.barrier() on a rank other than 0: the group
\* adds 1 to the key of the barrier.
DistBarrierAdd(r) ==
    /\ StepOf(r) = "barrier"
    /\ regPg[r].rank # 0
    /\ regStore' = [regStore EXCEPT !.barrier = @ + 1]
    /\ regServed' = [regServed EXCEPT ![r] = Append(@, [op |-> "barrier", by |-> regPg[r]])]
    /\ Advance(r, TRUE)
    /\ UNCHANGED <<regTest, regWorld, regName, regAttrs, regPlugins, regPg, regCreated>>
    /\ UNCHANGED regOthers

\* dist.barrier() on rank 0: the group polls the key until it reads
\* size - 1.
DistBarrierWait(r) ==
    /\ StepOf(r) = "barrier"
    /\ regPg[r].rank = 0
    /\ ~(regStore.barrier < regPg[r].size - 1)
    /\ regServed' = [regServed EXCEPT ![r] = Append(@, [op |-> "barrier", by |-> regPg[r]])]
    /\ Advance(r, TRUE)
    /\ UNCHANGED <<regTest, regWorld, regName, regAttrs, regPlugins, regPg, regCreated,
                   regStore>>
    /\ UNCHANGED regOthers

\* line 1308: dist.destroy_process_group()
DestroyProcessGroup(r) ==
    /\ StepOf(r) = "destroy_process_group"
    /\ regPg' = [regPg EXCEPT ![r] = NoGroup]
    /\ Advance(r, TRUE)
    /\ UNCHANGED <<regTest, regWorld, regName, regAttrs, regPlugins, regCreated, regServed,
                   regStore>>
    /\ UNCHANGED regOthers

RegNext ==
    \E r \in RanksOf(regWorld) :
        \/ RegisterBackend(r)
        \/ AssertClassAttr(r)
        \/ InitProcessGroup(r)
        \/ InitProcessGroupReturn(r)
        \/ Collective(r)
        \/ DistBarrierAdd(r)
        \/ DistBarrierWait(r)
        \/ DestroyProcessGroup(r)

\* The test runs alone in its processes.
RegStart == RegInit /\ DdpIdle /\ CkIdle /\ SeqIdle /\ WarnIdle /\ BarIdle /\ OpIdle /\ BktIdle /\ GpuIdle /\ ToIdle /\ DbgIdle /\ PsgIdle /\ CtIdle /\ ExIdle /\ BfIdle
SpecReg == RegStart /\ [][RegNext]_vars

\* C12: after Backend.register_backend(name, fn), class Backend has an
\* attribute called name.upper() whose value is name.upper(), and
\* Backend._plugins[name.upper()] is fn; a later init_process_group with
\* that backend name builds the group by calling fn(store, rank, size,
\* timeout), and every collective issued on the default group is served by
\* the object fn returned.
C12_RegisteredBackendServes ==
    \A r \in RanksOf(regWorld) :
        /\ StepOf(r) # "failed"
        /\ regPc[r] > 1 =>
              /\ DUMMY \in DOMAIN regAttrs[r] /\ regAttrs[r][DUMMY] = DUMMY
              /\ DOMAIN regPlugins[r] = {DUMMY} /\ regPlugins[r][DUMMY] = "create_dummy"
              /\ \A k \in DOMAIN BuiltinBackends : regAttrs[r][k] = BuiltinBackends[k]
        /\ regPc[r] > 2 /\ regTest # "test_backend_class_attr" =>
              /\ regCreated[r] = <<[func |-> "create_dummy", store |-> "default_store",
                                    rank |-> r, size |-> regWorld,
                                    timeout |-> "default_pg_timeout"]>>
              /\ \A k \in 3 .. regPc[r] - 1 :
                    Steps(regTest)[k] # "destroy_process_group" =>
                        regServed[r][k - 2] =
                            [op |-> Steps(regTest)[k],
                             by |-> [name |-> "Dummy", rank |-> r, size |-> regWorld]]
        /\ regPc[r] <= 2 => regServed[r] = <<>> /\ Len(regCreated[r]) <= 1

\* C12 witness: in test_collectives on 3 ranks, registered under the
\* spelling 'Dummy', rank 2 has had its five collectives served by the
\* group that create_dummy made for it.
C12_Witness ==
    /\ regTest = "test_collectives" /\ regWorld = 3 /\ regName = <<"D", "u", "m", "m", "y">>
    /\ Len(regServed[2]) = 5
    /\ regServed[2][5] = [op |-> "barrier", by |-> DummyProcessGroup(2, 3)]
    /\ regPg[2] = DummyProcessGroup(2, 3)

\* The operations of DummyProcessGroup that change or copy tensors
TensorOps == {"all_gather", "all_reduce", "broadcast", "reduce_scatter", "send", "recv"}
\* Rank r is at init_process_group and has no group yet: the call looks the
\* backend up, and makes the group or raises.
StartsInitProcessGroup(r) == StepOf(r) = "init_process_group" /\ regPg[r] = NoGroup
\* Rank r can make its next step in the state as it is.
CanStep(r) ==
    \/ ENABLED RegisterBackend(r) \/ ENABLED AssertClassAttr(r)
    \/ StartsInitProcessGroup(r) \/ ENABLED InitProcessGroupReturn(r)
    \/ ENABLED Collective(r) \/ ENABLED DistBarrierAdd(r)
    \/ ENABLED DistBarrierWait(r) \/ ENABLED DestroyProcessGroup(r)
\* Rank r has not ended the test and waits for another rank.
Held(r) == StepOf(r) \notin {"passed", "failed"} /\ ~CanStep(r)

\* C27: allgather, allreduce, broadcast, reduce_scatter, send and recv on
\* any rank and barrier on the ranks other than 0 return without waiting
\* for another rank; of the operations of the group only the barrier of
\* rank 0 waits. So test_send_recv cannot deadlock before or in its
\* barrier: a rank is held only where init_process_group waits for the
\* groups of the other ranks or, rank 0, in the barrier, and then another
\* rank can make its step.
C27_OnlyRankZeroBarrierWaits ==
    \A r \in RanksOf(regWorld) :
        /\ StepOf(r) \in TensorOps => ENABLED Collective(r)
        /\ (StepOf(r) = "barrier" /\ r # 0) => ENABLED DistBarrierAdd(r)
        /\ Held(r) =>
              /\ \/ StepOf(r) = "init_process_group"
                 \/ StepOf(r) = "barrier" /\ r = 0
              /\ \E m \in RanksOf(regWorld) \ {r} : CanStep(m)

\* C27 witness: in test_send_recv on 3 ranks rank 1 is past its send, its
\* recv and its barrier while rank 2 has still to send, and rank 0 is held
\* in the barrier.
C27_Witness ==
    /\ regTest = "test_send_recv" /\ regWorld = 3
    /\ StepOf(0) = "barrier" /\ Held(0)
    /\ StepOf(1) = "passed"
    /\ StepOf(2) = "send"
    /\ Len(regServed[1]) = 3

(***************************************************************************)
(* The operations of DummyProcessGroup on the tensors of the ranks: every  *)
(* rank of a group calls the operations on its own tensor, in any order    *)
(* and with any peer and tag.                                              *)
(***************************************************************************)
MaxOpWorld == 3
MaxOps == 3
OpSizes == 1 .. MaxOpWorld
\* the tensors the tests start with: torch.zeros and torch.ones * 7
InitialTensors == {<<0, 0>>, <<7, 7>>}
\* input lists of reduce_scatter: the ones of the test, and a list whose
\* entries differ
ScatterLists(size) == {[k \in 1 .. size |-> <<1, 1>>], [k \in 1 .. size |-> <<k, 2 * k>>]}
Tags == {0, 1}
NoCall == [op |-> "none", inputs |-> <<>>, outputs |-> <<>>]
NoCount ==
    [allreduce |-> 0, broadcast |-> 0, send |-> 0, recv |-> 0, allgather |-> 0,
     reduce_scatter |-> 0]
\* torch.zeros of the shape of tensor
zeros_like(tensor) == [i \in DOMAIN tensor |-> 0]
CallsMade ==
    LET RECURSIVE Sum(_)
        Sum(S) == IF S = {} THEN 0
                  ELSE LET r == CHOOSE x \in S : TRUE
                       IN  opCount[r].allreduce + opCount[r].broadcast + opCount[r].send
                           + opCount[r].recv + opCount[r].allgather
                           + opCount[r].reduce_scatter + Sum(S \ {r})
    IN  Sum(RanksOf(opSize))

OpInit ==
    /\ opSize \in OpSizes
    /\ opStart \in [RanksOf(opSize) -> InitialTensors]
    /\ opTensor = opStart
    /\ opCount = [r \in RanksOf(opSize) |-> NoCount]
    /\ opLast = [r \in RanksOf(opSize) |-> NoCall]

\* dist.all_reduce(tensor) on rank r
CallAllReduce(r) ==
    /\ CallsMade < MaxOps
    /\ opTensor' = [opTensor EXCEPT ![r] = allreduce(DummyProcessGroup(r, opSize), <<@>>)[1]]
    /\ opCount' = [opCount EXCEPT ![r].allreduce = @ + 1]
    /\ UNCHANGED <<opSize, opStart, opLast>>
    /\ UNCHANGED opOthers

\* dist.broadcast(tensor, src) on rank r
CallBroadcast(r) ==
    /\ CallsMade < MaxOps
    /\ opTensor' = [opTensor EXCEPT ![r] = broadcast(DummyProcessGroup(r, opSize), <<@>>)[1]]
    /\ opCount' = [opCount EXCEPT ![r].broadcast = @ + 1]
    /\ UNCHANGED <<opSize, opStart, opLast>>
    /\ UNCHANGED opOthers

\* dist.send(tensor, dst, tag=tag) on rank r
CallSend(r) ==
    /\ CallsMade < MaxOps
    /\ \E dst \in RanksOf(opSize), tag \in Tags :
          opTensor' = [opTensor EXCEPT ![r] =
                          send(DummyProcessGroup(r, opSize), <<@>>, dst, tag)[1]]
    /\ opCount' = [opCount EXCEPT ![r].send = @ + 1]
    /\ UNCHANGED <<opSize, opStart, opLast>>
    /\ UNCHANGED opOthers

\* dist.recv(tensor, src, tag=tag) on rank r
CallRecv(r) ==
    /\ CallsMade < MaxOps
    /\ \E src \in RanksOf(opSize), tag \in Tags :
          opTensor' = [opTensor EXCEPT ![r] =
                          recv(DummyProcessGroup(r, opSize), <<@>>, src, tag)[1]]
    /\ opCount' = [opCount EXCEPT ![r].recv = @ + 1]
    /\ UNCHANGED <<opSize, opStart, opLast>>
    /\ UNCHANGED opOthers

\* dist.all_gather(output_tensor_list, input_tensor) on rank r, with one
\* zero tensor per rank in output_tensor_list
CallAllGather(r) ==
    /\ CallsMade < MaxOps
    /\ opCount' = [opCount EXCEPT ![r].allgather = @ + 1]
    /\ LET output_tensor_list == [k \in 1 .. opSize |-> zeros_like(opTensor[r])]
           input_tensor == opTensor[r]
       IN  opLast' = [opLast EXCEPT ![r] =
                         [op |-> "allgather", inputs |-> <<input_tensor>>,
                          outputs |-> allgather(DummyProcessGroup(r, opSize),
                                                <<output_tensor_list>>, <<input_tensor>>)]]
    /\ UNCHANGED <<opSize, opStart, opTensor>>
    /\ UNCHANGED opOthers

\* dist.reduce_scatter(output_tensor, input_tensor_list) on rank r, with one
\* tensor per rank in input_tensor_list
CallReduceScatter(r) ==
    /\ CallsMade < MaxOps
    /\ opCount' = [opCount EXCEPT ![r].reduce_scatter = @ + 1]
    /\ \E input_tensor_list \in ScatterLists(opSize) :
          opLast' = [opLast EXCEPT ![r] =
                        [op |-> "reduce_scatter", inputs |-> <<input_tensor_list>>,
                         outputs |-> reduce_scatter(DummyProcessGroup(r, opSize),
                                         <<zeros_like(input_tensor_list[1])>>,
                                         <<input_tensor_list>>)]]
    /\ UNCHANGED <<opSize, opStart, opTensor>>
    /\ UNCHANGED opOthers

OpNext ==
    \E r \in RanksOf(opSize) :
        \/ CallAllReduce(r)
        \/ CallBroadcast(r)
        \/ CallSend(r)
        \/ CallRecv(r)
        \/ CallAllGather(r)
        \/ CallReduceScatter(r)

\* The operations are called on a group of their own.
OpStart == OpInit /\ DdpIdle /\ CkIdle /\ SeqIdle /\ WarnIdle /\ BarIdle /\ RegIdle /\ BktIdle /\ GpuIdle /\ ToIdle /\ DbgIdle /\ PsgIdle /\ CtIdle /\ ExIdle /\ BfIdle
SpecOp == OpStart /\ [][OpNext]_vars

\* C13: the in-place operations change every element of the tensor they
\* are given by a fixed constant, exactly once per call: allreduce adds 2,
\* broadcast adds 1, send adds 1 and recv adds 2, whatever the world size,
\* the src or dst, the tag and the tensors of the other ranks.
C13_InPlaceOpsAddConstants ==
    \A r \in RanksOf(opSize) : \A i \in DOMAIN opStart[r] :
        opTensor[r][i] = opStart[r][i] + 2 * opCount[r].allreduce + 1 * opCount[r].broadcast
                         + 1 * opCount[r].send + 2 * opCount[r].recv

\* C13 witness: in a group of 3, rank 1 started with a tensor of 7s and
\* made one all_reduce, rank 0 started with zeros and made one broadcast,
\* rank 2 one recv; rank 1 holds 9s and rank 0 ones.
C13_Witness ==
    /\ opSize = 3
    /\ opStart[1] = <<7, 7>> /\ opCount[1].allreduce = 1 /\ opCount[1].recv = 0
    /\ opTensor[1] = <<9, 9>>
    /\ opStart[0] = <<0, 0>> /\ opCount[0].broadcast = 1
    /\ opTensor[0] = <<1, 1>>
    /\ opCount[2].recv = 1

\* C14: allgather leaves every tensor of every output list equal to the
\* caller's own corresponding input tensor, and reduce_scatter leaves each
\* output tensor equal to the entry at index rank() of the caller's own
\* corresponding input list, with no reduction.
C14_GatherAndScatterCopy ==
    \A r \in RanksOf(opSize) :
        /\ opLast[r].op = "allgather" =>
              /\ Len(opLast[r].outputs[1]) = opSize
              /\ \A k \in 1 .. opSize : opLast[r].outputs[1][k] = opLast[r].inputs[1]
        /\ opLast[r].op = "reduce_scatter" =>
              opLast[r].outputs[1] = opLast[r].inputs[1][r + 1]

\* C14 witness: rank 1 of 3 called reduce_scatter with different tensors in
\* its input list and holds the one at index 1, and rank 2 gathered three
\* copies of its own tensor of 7s raised by an all_reduce.
C14_Witness ==
    /\ opSize = 3
    /\ opLast[1].op = "reduce_scatter"
    /\ opLast[1].inputs[1] = <<<<1, 2>>, <<2, 4>>, <<3, 6>>>>
    /\ opLast[1].outputs = <<<<2, 4>>>>
    /\ opLast[2].op = "allgather"
    /\ opLast[2].outputs = <<<<<<9, 9>>, <<9, 9>>, <<9, 9>>>>>>

(***************************************************************************)
(* dist._compute_bucket_assignment_by_size(tensors, bucket_size_limits):   *)
(* the assignment of the parameters of a model to the buckets of the       *)
(* reducer, as ComputeBucketAssignmentTest calls it (dense tensors on one  *)
(* device, no tensor_indices).                                             *)
(***************************************************************************)
MaxTensors == 6
Dtypes == {"float", "double"}
\* tensor.element_size()
element_size(dtype) == IF dtype = "float" THEN 4 ELSE 8
\* torch.empty([numel], dtype=dtype)
empty(numel, dtype) == [dtype |-> dtype, numel |-> numel]
\* tensor.numel() * tensor.element_size()
nbytes(tensor) == tensor.numel * element_size(tensor.dtype)
\* the tensors of the tests
TestTensors ==
    {empty(10, "float"), empty(50, "float"), empty(100, "float"), empty(200, "float"),
     empty(25, "double")}
\* the bucket_size_limits of the tests
TestLimits == {<<400>>, <<40, 80>>, <<200, 400>>}

\* BucketAccumulator(): the indices and the byte size gathered for one key
BucketAccumulator == [indices |-> <<>>, size |-> 0, size_limit |-> 0]

\* if (bucket.size >= bucket_size_limit)
ReachedLimitOnlyAbove(size, bucket_size_limit) == size > bucket_size_limit
ReachedLimit(size, bucket_size_limit) == size >= bucket_size_limit
\* "Advance to the next bucket size limit for this type/device": the
\* iterator stays on the last limit.
NextLimitWraps(it, limits) == (it % Len(limits)) + 1
NextLimit(it, limits) == IF it + 1 <= Len(limits) THEN it + 1 ELSE it

\* The loop over the tensors from the i-th on. buckets holds the
\* accumulator of each dtype, iterators the position in limits each dtype
\* has reached (0: not yet set), result the buckets closed so far. A
\* bucket is closed when its size has reached the limit of its dtype, and
\* the dtype moves on to the next limit if there is one.
RECURSIVE AssignFrom(_, _, _, _, _, _)
AssignFrom(tensors, limits, i, buckets, iterators, result) ==
    IF i > Len(tensors) THEN [buckets |-> buckets, result |-> result]
    ELSE LET key == tensors[i].dtype
             it == IF iterators[key] = 0 THEN 1 ELSE iterators[key]
             bucket_size_limit == limits[it]
             bucket == [indices |-> Append(buckets[key].indices, i - 1),
                        size |-> buckets[key].size + nbytes(tensors[i]),
                        size_limit |-> bucket_size_limit]
             full == ReachedLimit(bucket.size, bucket_size_limit)
         IN  AssignFrom(tensors, limits, i + 1,
                        [buckets EXCEPT ![key] = IF full THEN BucketAccumulator ELSE bucket],
                        [iterators EXCEPT ![key] = IF full THEN NextLimit(it, limits) ELSE it],
                        IF full
                        THEN Append(result, [indices |-> bucket.indices,
                                             size_limit |-> bucket.size_limit])
                        ELSE result)

\* "Add remaining buckets": the accumulators left with indices in them
RECURSIVE AddRemaining(_, _, _)
AddRemaining(buckets, keys, result) ==
    IF keys = {} THEN result
    ELSE LET key == CHOOSE k \in keys : TRUE
         IN  AddRemaining(buckets, keys \ {key},
                          IF buckets[key].indices # <<>>
                          THEN Append(result, [indices |-> buckets[key].indices,
                                               size_limit |-> buckets[key].size_limit])
                          ELSE result)

\* the smallest index of a bucket
MinIndex(indices) ==
    CHOOSE m \in {indices[k] : k \in DOMAIN indices} :
        \A k \in DOMAIN indices : m <= indices[k]

\* std::sort of the buckets by their smallest index
RECURSIVE SortByMinIndex(_)
SortByMinIndex(result) ==
    IF result = <<>> THEN <<>>
    ELSE LET first == CHOOSE k \in DOMAIN result :
                         \A j \in DOMAIN result :
                             MinIndex(result[k].indices) <= MinIndex(result[j].indices)
             rest == [j \in 1 .. Len(result) - 1 |->
                         IF j < first THEN result[j] ELSE result[j + 1]]
         IN  <<result[first]>> \o SortByMinIndex(rest)

compute_bucket_assignment_by_sizeNoSort(tensors, bucket_size_limits) ==
    LET loop == AssignFrom(tensors, bucket_size_limits, 1,
                           [k \in Dtypes |-> BucketAccumulator], [k \in Dtypes |-> 0], <<>>)
        sorted == AddRemaining(loop.buckets, Dtypes, loop.result)
    IN  [result |-> [b \in DOMAIN sorted |-> sorted[b].indices],
         per_bucket_size_limits |-> [b \in DOMAIN sorted |-> sorted[b].size_limit]]
\* The buckets and the size limit of each bucket, in the same order.
compute_bucket_assignment_by_size(tensors, bucket_size_limits) ==
    LET loop == AssignFrom(tensors, bucket_size_limits, 1,
                           [k \in Dtypes |-> BucketAccumulator], [k \in Dtypes |-> 0], <<>>)
        sorted == SortByMinIndex(AddRemaining(loop.buckets, Dtypes, loop.result))
    IN  [result |-> [b \in DOMAIN sorted |-> sorted[b].indices],
         per_bucket_size_limits |-> [b \in DOMAIN sorted |-> sorted[b].size_limit]]

NoResult == [result |-> <<>>, per_bucket_size_limits |-> <<>>]

BktInit ==
    /\ bktTensors \in UNION {[1 .. n -> TestTensors] : n \in 0 .. MaxTensors}
    /\ bktLimits \in TestLimits
    /\ bktResult = NoResult
    /\ bktPc = "call"

\* result, per_bucket_size_limits = dist._compute_bucket_assignment_by_size(
\*     tensors, limits)
ComputeBucketAssignment ==
    /\ bktPc = "call"
    /\ bktResult' = compute_bucket_assignment_by_size(bktTensors, bktLimits)
    /\ bktPc' = "returned"
    /\ UNCHANGED <<bktTensors, bktLimits>>
    /\ UNCHANGED bktOthers

BktNext == ComputeBucketAssignment

\* The call is made on tensors of its own.
BktStart == BktInit /\ DdpIdle /\ CkIdle /\ SeqIdle /\ WarnIdle /\ BarIdle /\ RegIdle /\ OpIdle /\ GpuIdle /\ ToIdle /\ DbgIdle /\ PsgIdle /\ CtIdle /\ ExIdle /\ BfIdle
SpecBkt == BktStart /\ [][BktNext]_vars

\* The four calls of ComputeBucketAssignmentTest and what they must return.
BucketTestsFirstLimitOnly ==
    {[tensors |-> [i \in 1 .. 4 |-> empty(10, "float")],
      limits |-> <<40, 80>>,
      result |-> <<<<0>>, <<1>>, <<2>>, <<3>>>>,
      per_bucket_size_limits |-> <<40, 40, 40, 40>>]}
BucketTests ==
    {[tensors |-> <<empty(100, "float"), empty(200, "float"), empty(100, "float"),
                    empty(50, "float")>>,
      limits |-> <<400>>,
      result |-> <<<<0>>, <<1>>, <<2>>, <<3>>>>,
      per_bucket_size_limits |-> <<400, 400, 400, 400>>],
     [tensors |-> <<empty(50, "float"), empty(25, "double"), empty(50, "float"),
                    empty(25, "double"), empty(50, "float"), empty(25, "double")>>,
      limits |-> <<400>>,
      result |-> <<<<0, 2>>, <<1, 3>>, <<4>>, <<5>>>>,
      per_bucket_size_limits |-> <<400, 400, 400, 400>>],
     [tensors |-> <<empty(10, "float"), empty(10, "float"), empty(10, "float"),
                    empty(10, "float")>>,
      limits |-> <<40, 80>>,
      result |-> <<<<0>>, <<1, 2>>, <<3>>>>,
      per_bucket_size_limits |-> <<40, 80, 80>>],
     [tensors |-> <<empty(50, "float"), empty(25, "double"), empty(50, "float"),
                    empty(25, "double"), empty(50, "float"), empty(25, "double")>>,
      limits |-> <<200, 400>>,
      result |-> <<<<0>>, <<1>>, <<2, 4>>, <<3, 5>>>>,
      per_bucket_size_limits |-> <<200, 200, 400, 400>>]}

\* The assertions of the tests hold of what the call returned.
BucketTestsPass ==
    \A t \in BucketTests :
        bktPc = "returned" /\ bktTensors = t.tensors /\ bktLimits = t.limits =>
            /\ bktResult.result = t.result
            /\ bktResult.per_bucket_size_limits = t.per_bucket_size_limits

\* the buckets returned, and accessors to them
Buckets == bktResult.result
TensorAt(index) == bktTensors[index + 1]
Indices(b) == {Buckets[b][k] : k \in DOMAIN Buckets[b]}
LastOf(b) == Buckets[b][Len(Buckets[b])]
RECURSIVE BytesOf(_)
BytesOf(indices) ==
    IF indices = {} THEN 0
    ELSE LET i == CHOOSE x \in indices : TRUE
         IN  nbytes(TensorAt(i)) + BytesOf(indices \ {i})
\* the dtype of the tensors of bucket b
DtypeOf(b) == TensorAt(Buckets[b][1]).dtype
\* the position of bucket b among the buckets of its dtype
RankInDtype(b) == Cardinality({c \in 1 .. b : DtypeOf(c) = DtypeOf(b)})

\* C15: the buckets returned partition the indices 0..n-1 of the tensors:
\* every index is in exactly one bucket, no bucket is empty, tensors of
\* different dtypes never share a bucket, the indices inside a bucket are
\* ascending and the buckets are ordered by their smallest index.
C15_BucketsPartitionIndices ==
    bktPc = "returned" =>
        /\ \A i \in 0 .. Len(bktTensors) - 1 :
              Cardinality({<<b, k>> \in (DOMAIN Buckets) \X (1 .. Len(bktTensors)) :
                              k \in DOMAIN Buckets[b] /\ Buckets[b][k] = i}) = 1
        /\ \A b \in DOMAIN Buckets :
              /\ Buckets[b] # <<>>
              /\ Indices(b) \subseteq 0 .. Len(bktTensors) - 1
              /\ \A i, j \in Indices(b) : TensorAt(i).dtype = TensorAt(j).dtype
              /\ \A k \in 1 .. Len(Buckets[b]) - 1 : Buckets[b][k] < Buckets[b][k + 1]
        /\ \A b \in 1 .. Len(Buckets) - 1 :
              MinIndex(Buckets[b]) < MinIndex(Buckets[b + 1])

\* C15 witness: the call of test_single_limit_multi_dtype has returned its
\* buckets [[0, 2], [1, 3], [4], [5]].
C15_Witness ==
    /\ bktPc = "returned" /\ bktLimits = <<400>> /\ Len(bktTensors) = 6
    /\ \A i \in 1 .. 6 : bktTensors[i] = IF i % 2 = 1 THEN empty(50, "float")
                                         ELSE empty(25, "double")
    /\ Buckets = <<<<0, 2>>, <<1, 3>>, <<4>>, <<5>>>>

\* the size limit reported for bucket b
LimitOf(b) == bktResult.per_bucket_size_limits[b]
\* bucket b is followed by another bucket of its dtype: it was closed in
\* the loop.
ClosedInLoop(b) == \E c \in DOMAIN Buckets : c > b /\ DtypeOf(c) = DtypeOf(b)

\* C16: a bucket is closed as soon as its accumulated byte size reaches its
\* limit (>=); per dtype the first bucket uses the first limit and each
\* later bucket the next one, the last limit repeating; the list of limits
\* returned has one entry per bucket, in the order of the buckets (four
\* float tensors of 40 bytes with limits [40, 80] give [[0], [1, 2], [3]]
\* and the limits [40, 80, 80]).
C16_ClosedWhenLimitReached ==
    bktPc = "returned" =>
        /\ Len(bktResult.per_bucket_size_limits) = Len(Buckets)
        /\ \A b \in DOMAIN Buckets :
              /\ LimitOf(b) = bktLimits[IF RankInDtype(b) < Len(bktLimits)
                                        THEN RankInDtype(b) ELSE Len(bktLimits)]
              /\ BytesOf(Indices(b) \ {LastOf(b)}) < LimitOf(b)
              /\ ClosedInLoop(b) => BytesOf(Indices(b)) >= LimitOf(b)
        /\ BucketTestsPass

\* C16 witness: the call of test_multi_limit_multi_dtype has returned; the
\* floats and the doubles each went through the limits 200 and 400.
C16_Witness ==
    /\ bktPc = "returned" /\ bktLimits = <<200, 400>> /\ Len(bktTensors) = 6
    /\ \A i \in 1 .. 6 : bktTensors[i] = IF i % 2 = 1 THEN empty(50, "float")
                                         ELSE empty(25, "double")
    /\ Buckets = <<<<0>>, <<1>>, <<2, 4>>, <<3, 5>>>>
    /\ bktResult.per_bucket_size_limits = <<200, 200, 400, 400>>

\* C17, as the claim states it: the total byte size of the tensors
\* assigned to one bucket never exceeds the size limit reported for that
\* bucket.
C17_BucketWithinLimit ==
    bktPc = "returned" => \A b \in DOMAIN Buckets : BytesOf(Indices(b)) <= LimitOf(b)

\* C17, amended: the total byte size of the tensors assigned to one
\* bucket, its last tensor left out, is below the size limit reported for
\* that bucket: a bucket goes over its limit by its last tensor only.
C17_BucketWithinLimitBeforeLast ==
    bktPc = "returned" =>
        \A b \in DOMAIN Buckets :
            /\ BytesOf(Indices(b) \ {LastOf(b)}) < LimitOf(b)
            /\ BytesOf(Indices(b)) < LimitOf(b) + nbytes(TensorAt(LastOf(b)))

\* C17 witness: the call of test_single_limit_single_dtype has returned;
\* the tensor of 800 bytes is alone in a bucket whose limit is 400.
C17_Witness ==
    /\ bktPc = "returned" /\ bktLimits = <<400>>
    /\ bktTensors = <<empty(100, "float"), empty(200, "float"), empty(100, "float"),
                      empty(50, "float")>>
    /\ Buckets[2] = <<1>> /\ LimitOf(2) = 400 /\ BytesOf(Indices(2)) = 800

(***************************************************************************)
(* gpus_for_rank(world_size): the visible devices of the node shared out   *)
(* among the processes.                                                    *)
(***************************************************************************)
MaxDeviceCount == 8
\* list(range(n)) as a sequence: element k + 1 is k
range(n) == [k \in 1 .. n |-> k - 1]
\* list[a:b] for 0 <= a: the elements at positions a .. b - 1 that exist
Slice(list, a, b) ==
    LET stop == IF b < Len(list) THEN b ELSE Len(list)
    IN  [k \in 1 .. (IF stop > a THEN stop - a ELSE 0) |-> list[a + k]]
\* line 71: torch.cuda.device_count() // world_size
gpus_per_processRoundedUp(device_count, world) == (device_count + world - 1) \div world
gpus_per_process(device_count, world) == device_count \div world

GpuInit ==
    /\ gpuDeviceCount \in 0 .. MaxDeviceCount
    /\ gpuWorldSize \in 1 .. MaxWorld
    /\ gpuRank = 0
    /\ gpuLists = <<>>
    /\ gpuPc = "loop"

\* lines 73-76: one turn of the loop appends the devices of rank
GpusAppend ==
    /\ gpuPc = "loop"
    /\ gpuRank < gpuWorldSize
    /\ LET visible_devices == range(gpuDeviceCount)
           per == gpus_per_process(gpuDeviceCount, gpuWorldSize)
       IN  gpuLists' = Append(gpuLists,
                              Slice(visible_devices, gpuRank * per, (gpuRank + 1) * per))
    /\ gpuRank' = gpuRank + 1
    /\ UNCHANGED <<gpuDeviceCount, gpuWorldSize, gpuPc>>
    /\ UNCHANGED gpuOthers

\* line 77: return gpus_for_rank
GpusReturn ==
    /\ gpuPc = "loop"
    /\ ~(gpuRank < gpuWorldSize)
    /\ gpuPc' = "returned"
    /\ UNCHANGED <<gpuDeviceCount, gpuWorldSize, gpuRank, gpuLists>>
    /\ UNCHANGED gpuOthers

GpuNext == GpusAppend \/ GpusReturn
\* The function is called on its own.
GpuStart == GpuInit /\ DdpIdle /\ CkIdle /\ SeqIdle /\ WarnIdle /\ BarIdle /\ RegIdle /\ OpIdle /\ BktIdle /\ ToIdle /\ DbgIdle /\ PsgIdle /\ CtIdle /\ ExIdle /\ BfIdle
SpecGpu == GpuStart /\ [][GpuNext]_vars

\* the devices of the list of rank r
DevicesOf(r) == {gpuLists[r + 1][k] : k \in DOMAIN gpuLists[r + 1]}
\* W lists, one per rank, of the same length D // W and pairwise disjoint
EvenDisjointLists ==
    /\ Len(gpuLists) = gpuWorldSize
    /\ \A r \in RanksOf(gpuWorldSize) :
          /\ Len(gpuLists[r + 1]) = gpuDeviceCount \div gpuWorldSize
          /\ Cardinality(DevicesOf(r)) = Len(gpuLists[r + 1])
    /\ \A r, s \in RanksOf(gpuWorldSize) : r # s => DevicesOf(r) \cap DevicesOf(s) = {}

MaxClock == 6
\* line 88: timeout=timedelta(seconds=1)
group_timeout == 1
\* line 120: t.join(5)
join_timeout == 5
\* line 126: self.assertGreater(3, c2p[0])
false_alarm == 3
\* what a call takes over the time it waits, in seconds
Overheads == {0, 1}
NoException == [type |-> "None", msg |-> ""]
RuntimeError(msg) == [type |-> "RuntimeError", msg |-> msg]
AssertionError(msg) == [type |-> "AssertionError", msg |-> msg]
\* what init_process_group raises when it fails
InitErrors == {RuntimeError("Address already in use")}
\* what default_store.get("nonexistent key") raises after the timeout
GetErrors == {RuntimeError("Socket Timeout"), RuntimeError("Timeout waiting for key")}
\* re.search("Timeout", msg) on the messages above
SearchTimeout(msg) == msg \in {"Socket Timeout", "Timeout waiting for key"}
\* lines 102-110: the init methods of the platform
init_methods(platform) == IF platform = "win32" THEN <<"file">> ELSE <<"file", "tcp">>

\* with self.assertRaisesRegex(RuntimeError, "Timeout"): what leaves the
\* with statement when its body raised exc
assertRaisesRegex(exc) ==
    IF exc = NoException THEN AssertionError("RuntimeError not raised")
    ELSE IF exc.type # "RuntimeError" THEN exc
    ELSE IF SearchTimeout(exc.msg) THEN NoException
    ELSE AssertionError("\"Timeout\" does not match")
\* line 97: except RuntimeError as e
CatchesNothing(exc) == FALSE
Catches(exc) == exc.type = "RuntimeError"

ToInit ==
    /\ toPlatform \in {"linux", "win32"}
    /\ toMethod = 1
    /\ toC2p = <<>>
    /\ toWorker = "not started"
    /\ toDue = 0
    /\ toTik = 0
    /\ toTok = 0
    /\ toGot = NoException
    /\ toEscaped = NoException
    /\ toMain = "start"
    /\ toRaised = NoException
    /\ toClock = 0

\* lines 114-119: c2p = [], t = threading.Thread(...), t.start()
StartThread ==
    /\ toMain = "start"
    /\ toC2p' = <<>>
    /\ toWorker' = "init_process_group"
    /\ toClock' = 0
    /\ \E d \in Overheads : toDue' = d
    /\ toTik' = 0
    /\ toTok' = 0
    /\ toGot' = NoException
    /\ toEscaped' = NoException
    /\ toMain' = "join"
    /\ UNCHANGED <<toPlatform, toMethod, toRaised>>
    /\ UNCHANGED toOthers

\* A second passes; a call of the worker does not last beyond its time.
Tick ==
    /\ toClock < MaxClock
    /\ toMain = "join"
    /\ toWorker \in {"init_process_group", "get", "destroy_process_group"} => toClock < toDue
    /\ toClock' = toClock + 1
    /\ UNCHANGED <<toPlatform, toMethod, toC2p, toWorker, toDue, toTik, toTok, toGot,
                   toEscaped, toMain, toRaised>>
    /\ UNCHANGED toOthers

\* The worker leaves the try body with exc: the handler appends a
\* RuntimeError to c2p, any other exception ends the thread.
Leave(exc) ==
    /\ toEscaped' = exc
    /\ toC2p' = IF Catches(exc) THEN Append(toC2p, exc) ELSE toC2p
    /\ toWorker' = IF Catches(exc) THEN "done" ELSE "died"

\* lines 83-90: dist.init_process_group(...) returns or raises; tik
WorkerInit ==
    /\ toWorker = "init_process_group"
    /\ toClock = toDue
    /\ \/ /\ toWorker' = "get"
          /\ toTik' = toClock
          /\ \E d \in Overheads : toDue' = toClock + group_timeout + d
          /\ UNCHANGED <<toC2p, toEscaped>>
       \/ /\ \E e \in InitErrors : Leave(e)
          /\ UNCHANGED <<toTik, toDue>>
    /\ UNCHANGED <<toPlatform, toMethod, toTok, toGot, toMain, toRaised, toClock>>
    /\ UNCHANGED toOthers

\* lines 92-94: default_store.get("nonexistent key") under assertRaisesRegex
WorkerGet ==
    /\ toWorker = "get"
    /\ toClock = toDue
    /\ \E e \in GetErrors :
          /\ toGot' = e
          /\ IF assertRaisesRegex(e) = NoException
             THEN /\ toTok' = toClock
                  /\ toWorker' = "destroy_process_group"
                  /\ \E d \in Overheads : toDue' = toClock + d
                  /\ UNCHANGED <<toC2p, toEscaped>>
             ELSE /\ Leave(assertRaisesRegex(e))
                  /\ UNCHANGED <<toDue, toTok>>
    /\ UNCHANGED <<toPlatform, toMethod, toTik, toMain, toRaised, toClock>>
    /\ UNCHANGED toOthers

\* lines 95-96: dist.destroy_process_group(); c2p.append(float(tok - tik))
WorkerAppend ==
    /\ toWorker = "destroy_process_group"
    /\ toClock = toDue
    /\ toC2p' = Append(toC2p, [type |-> "float", value |-> toTok - toTik])
    /\ toWorker' = "done"
    /\ UNCHANGED <<toPlatform, toMethod, toDue, toTik, toTok, toGot, toEscaped, toMain,
                   toRaised, toClock>>
    /\ UNCHANGED toOthers

\* line 120: t.join(5) returns when the thread has ended or 5 seconds
\* have passed.
JoinReturn ==
    /\ toMain = "join"
    /\ toWorker \in {"done", "died"} \/ toClock >= join_timeout
    /\ toMain' = "check"
    /\ UNCHANGED <<toPlatform, toMethod, toC2p, toWorker, toDue, toTik, toTok, toGot,
                   toEscaped, toRaised, toClock>>
    /\ UNCHANGED toOthers

\* lines 122-130: what the main thread raises on c2p
Verdict(c2p) ==
    IF Len(c2p) # 1 THEN AssertionError("1 != len(c2p)")
    ELSE IF c2p[1].type = "float"
         THEN IF false_alarm > c2p[1].value THEN NoException
              ELSE AssertionError("3 not greater than c2p[0]")
    ELSE IF c2p[1].type = "RuntimeError" THEN c2p[1]
    ELSE RuntimeError("Unexpected type")

\* lines 122-130 and the loop of line 113: the main thread raises, goes
\* on to the next init method or has passed.
Check ==
    /\ toMain = "check"
    /\ toRaised' = Verdict(toC2p)
    /\ IF Verdict(toC2p) # NoException THEN toMain' = "raised" /\ UNCHANGED toMethod
       ELSE IF toMethod < Len(init_methods(toPlatform))
            THEN toMain' = "start" /\ toMethod' = toMethod + 1
       ELSE toMain' = "passed" /\ UNCHANGED toMethod
    /\ UNCHANGED <<toPlatform, toC2p, toWorker, toDue, toTik, toTok, toGot, toEscaped, toClock>>
    /\ UNCHANGED toOthers

ToNext ==
    \/ StartThread
    \/ Tick
    \/ WorkerInit
    \/ WorkerGet
    \/ WorkerAppend
    \/ JoinReturn
    \/ Check

\* The test runs alone.
ToStart == ToInit /\ DdpIdle /\ CkIdle /\ SeqIdle /\ WarnIdle /\ BarIdle /\ RegIdle /\ OpIdle /\ BktIdle /\ GpuIdle /\ DbgIdle /\ PsgIdle /\ CtIdle /\ ExIdle /\ BfIdle
SpecTo == ToStart /\ [][ToNext]_vars

\* the main thread is past join(5) for the thread of this init method
Joined == toMain \in {"check", "raised", "passed"}

\* C19: for each init method the worker thread has put exactly one item
\* into c2p by the time join(5) of the main thread returns: the elapsed
\* time as a float, less than 3 seconds, when store.get raised a
\* RuntimeError matching 'Timeout' under the timeout of 1 second, or the
\* RuntimeError itself when a RuntimeError escaped the try body; the main
\* thread raises that RuntimeError again, and 'Unexpected type' for any
\* other item. The worker never appends two items.
C19_ExactlyOneItemAtJoin ==
    /\ Len(toC2p) <= 1
    /\ Joined =>
          /\ Len(toC2p) = 1
          /\ \/ /\ toC2p[1].type = "float"
                /\ toC2p[1].value >= group_timeout /\ toC2p[1].value < 3
                /\ toGot.type = "RuntimeError" /\ SearchTimeout(toGot.msg)
                /\ toEscaped = NoException
             \/ /\ toC2p[1] = toEscaped
                /\ toEscaped.type = "RuntimeError"
    /\ toMain = "raised" => toRaised = toC2p[1] /\ toRaised = toEscaped
    /\ toMain = "passed" =>
          toC2p[1].type = "float" /\ toMethod = Len(init_methods(toPlatform))
    /\ toMain \in {"raised", "passed"} =>
          \/ Verdict(toC2p) = toRaised
          \/ toC2p[1].type \notin {"float", "RuntimeError"}
                /\ toRaised = RuntimeError("Unexpected type")

\* C19 witness: on the second init method (tcp) init_process_group raised
\* 'Address already in use' in the worker after the first method had put
\* its float, and the main thread has raised that error again.
C19_Witness ==
    /\ toMethod = 2 /\ toMain = "raised"
    /\ toC2p = <<RuntimeError("Address already in use")>>
    /\ toRaised = RuntimeError("Address already in use")

\* C19, second witness: the float of the timed-out get is in c2p when
\* join returns.
FloatAtJoin ==
    /\ toMain = "check" /\ toC2p = <<[type |-> "float", value |-> 2]>>
    /\ toGot = RuntimeError("Socket Timeout")

(***************************************************************************)
(* CommTest.test_debug_level: dist.set_debug_level_from_env() reads the    *)
(* environment variable TORCH_DISTRIBUTED_DEBUG and sets the debug level   *)
(* of the process. A string is the sequence of its characters.             *)
(***************************************************************************)
Unset == [set |-> FALSE, value |-> <<>>]
Value(str) == [set |-> TRUE, value |-> str]
\* the names of the levels
OFF == <<"O", "F", "F">>
INFO == <<"I", "N", "F", "O">>
DETAIL == <<"D", "E", "T", "A", "I", "L">>
\* every way of writing word in upper and lower case letters
Spellings(word) ==
    {[i \in DOMAIN word |-> IF i \in S THEN UpperChar(word[i]) ELSE LowerChar(word[i])] :
        S \in SUBSET DOMAIN word}
\* str(mode) of an integer of one digit; a string is its own str
str(mode) ==
    LET digit(n) == <<"0", "1", "2", "3", "4", "5", "6", "7", "8", "9">>[n + 1]
    IN  IF mode < 0 THEN <<"-", digit(-mode)>> ELSE <<digit(mode)>>
\* lines 1148-1158: mapping
mappingAllOff == [mode \in Spellings(OFF) \cup Spellings(INFO) \cup Spellings(DETAIL) |-> "OFF"]
mapping ==
    (<<"O", "F", "F">> :> "OFF") @@ (<<"o", "f", "f">> :> "OFF") @@ (<<"o", "F", "f">> :> "OFF")
    @@ (<<"I", "N", "F", "O">> :> "INFO") @@ (<<"i", "n", "f", "o">> :> "INFO")
    @@ (<<"I", "N", "f", "O">> :> "INFO")
    @@ (<<"D", "E", "T", "A", "I", "L">> :> "DETAIL")
    @@ (<<"d", "e", "t", "a", "i", "l">> :> "DETAIL")
    @@ (<<"D", "e", "T", "a", "I", "l">> :> "DETAIL")
\* line 1159: invalid_debug_modes, each as its str
invalid_debug_modes == {<<"f", "o", "o">>, str(0), str(1), str(-1)}
\* the values the variable is given: the modes of the test, every other
\* spelling of the three levels, and some strings that are no level
OtherModes == {<<>>, <<"o", "f">>, <<"O", "F", "F", "F">>, <<"i", "n", "f", "o", "s">>, str(2)}
Modes ==
    Spellings(OFF) \cup Spellings(INFO) \cup Spellings(DETAIL)
    \cup invalid_debug_modes \cup OtherModes

MustBe == "The value of TORCH_DISTRIBUTED_DEBUG must be OFF, INFO, or DETAIL."
\* set_debug_level_from_env: the level for the variable, or the error
loadDebugLevelFromEnvironment(env) ==
    IF ~env.set THEN [level |-> "OFF", raised |-> NoException]
    ELSE LET level_str == upper(env.value)
         IN  IF level_str = OFF THEN [level |-> "OFF", raised |-> NoException]
             ELSE IF level_str = INFO THEN [level |-> "INFO", raised |-> NoException]
             ELSE IF level_str = DETAIL THEN [level |-> "DETAIL", raised |-> NoException]
             ELSE [level |-> "none", raised |-> RuntimeError(MustBe)]

NoCalls == [env |-> Unset, raised |-> NoException, made |-> FALSE]

DbgInit ==
    /\ dbgEnviron \in {Unset} \cup {Value(mode) : mode \in Modes}
    /\ dbgLevel \in {"OFF", "INFO", "DETAIL"}
    /\ dbgCall = NoCalls

\* lines 1139-1142: del os.environ["TORCH_DISTRIBUTED_DEBUG"], KeyError passed over
DelEnviron ==
    /\ dbgEnviron' = Unset
    /\ UNCHANGED <<dbgLevel, dbgCall>>
    /\ UNCHANGED dbgOthers

\* lines 1162 and 1171: os.environ["TORCH_DISTRIBUTED_DEBUG"] = str(mode)
SetEnviron ==
    /\ \E mode \in Modes : dbgEnviron' = Value(mode)
    /\ UNCHANGED <<dbgLevel, dbgCall>>
    /\ UNCHANGED dbgOthers

\* lines 1144, 1163 and 1173: dist.set_debug_level_from_env(); the level
\* stays as it was when the call raises
SetDebugLevelFromEnv ==
    /\ LET loaded == loadDebugLevelFromEnvironment(dbgEnviron)
       IN  /\ dbgLevel' = IF loaded.raised = NoException THEN loaded.level ELSE dbgLevel
           /\ dbgCall' = [env |-> dbgEnviron, raised |-> loaded.raised, made |-> TRUE]
    /\ UNCHANGED dbgEnviron
    /\ UNCHANGED dbgOthers

DbgNext == DelEnviron \/ SetEnviron \/ SetDebugLevelFromEnv
\* The test runs alone.
DbgStart == DbgInit /\ DdpIdle /\ CkIdle /\ SeqIdle /\ WarnIdle /\ BarIdle /\ RegIdle /\ OpIdle /\ BktIdle /\ GpuIdle /\ ToIdle /\ PsgIdle /\ CtIdle /\ ExIdle /\ BfIdle
SpecDbg == DbgStart /\ [][DbgNext]_vars

\* the last call found the variable set to a spelling of word
CalledWith(word) == dbgCall.env.set /\ lower(dbgCall.env.value) = lower(word)
\* with self.assertRaisesRegex(RuntimeError, "The value of TORCH_DISTRIBUTED_DEBUG must")
RaisedMustBe == dbgCall.raised.type = "RuntimeError" /\ dbgCall.raised.msg = MustBe

\* C20: set_debug_level_from_env sets the debug level to OFF when
\* TORCH_DISTRIBUTED_DEBUG is unset, to OFF / INFO / DETAIL when its value
\* equals 'off' / 'info' / 'detail' compared case-insensitively, and raises
\* RuntimeError 'The value of TORCH_DISTRIBUTED_DEBUG must ...' for every
\* other value, including 'foo', '0', '1' and '-1'.
C20_DebugLevelFromEnv ==
    dbgCall.made =>
        /\ ~dbgCall.env.set => dbgCall.raised = NoException /\ dbgLevel = "OFF"
        /\ CalledWith(OFF) => dbgCall.raised = NoException /\ dbgLevel = "OFF"
        /\ CalledWith(INFO) => dbgCall.raised = NoException /\ dbgLevel = "INFO"
        /\ CalledWith(DETAIL) => dbgCall.raised = NoException /\ dbgLevel = "DETAIL"
        /\ dbgCall.env.set /\ ~CalledWith(OFF) /\ ~CalledWith(INFO) /\ ~CalledWith(DETAIL) =>
              RaisedMustBe
        /\ dbgCall.env.set /\ dbgCall.env.value \in DOMAIN mapping =>
              dbgCall.raised = NoException /\ dbgLevel = mapping[dbgCall.env.value]
        /\ dbgCall.env.set /\ dbgCall.env.value \in invalid_debug_modes => RaisedMustBe

\* C20 witness: the level was DETAIL after a call with 'DeTaIl', and the
\* call with the variable set to '-1' has raised.
C20_Witness ==
    /\ dbgCall.made /\ dbgCall.env = Value(<<"-", "1">>)
    /\ RaisedMustBe
    /\ dbgLevel = "DETAIL"

(***************************************************************************)
(* test_invalid_powerSGD_state: powerSGD.PowerSGDState(...) is constructed *)
(* with settings that do not go together.                                  *)
(***************************************************************************)
MaxStartIter == 6
MaxApproximationRank == 3
ValueError(msg) == [type |-> "ValueError", msg |-> msg]
\* the message of the error; the names are between backquotes in it
ExpectStartIter ==
    "Expect start_powerSGD_iter > 1 if use_error_feedback or warm_start is enabled, because PowerSGD can only be applied after the first two iterations in DDP."
NoState == [made |-> FALSE]
\* PowerSGDState.__init__: the exception it raises, if any
PowerSGDStateRaises(a) ==
    IF (a.use_error_feedback \/ a.warm_start) /\ a.start_powerSGD_iter <= 1
    THEN ValueError(ExpectStartIter)
    ELSE NoException
\* PowerSGDState.__init__: the state it makes
PowerSGDState(a) ==
    [made |-> TRUE, process_group |-> "None",
     matrix_approximation_rank |-> a.matrix_approximation_rank,
     start_powerSGD_iter |-> a.start_powerSGD_iter,
     use_error_feedback |-> a.use_error_feedback, warm_start |-> a.warm_start, iter |-> 0]
\* lines 661-663: product([0, 1], [True, False], [True, False]), with
\* matrix_approximation_rank=1
product ==
    [start_powerSGD_iter : {0, 1}, use_error_feedback : BOOLEAN, warm_start : BOOLEAN,
     matrix_approximation_rank : {1}]
\* lines 664-665: if not use_error_feedback and not warm_start: continue
SkipsNothing(a) == FALSE
Skips(a) == ~a.use_error_feedback /\ ~a.warm_start
\* lines 666-670: assertRaisesRegex(ValueError, "Expect ... > 1 ...")
AssertRaisesValueError(exc) == exc.type = "ValueError" /\ exc.msg = ExpectStartIter

PsgInit ==
    /\ psgInTest \in BOOLEAN
    /\ psgArgs \in [start_powerSGD_iter : 0 .. MaxStartIter, use_error_feedback : BOOLEAN,
                    warm_start : BOOLEAN,
                    matrix_approximation_rank : 1 .. MaxApproximationRank]
    /\ psgInTest => psgArgs \in product
    /\ psgRaised = NoException
    /\ psgState = NoState
    /\ psgPc = "loop"

\* the construction itself
Construct ==
    /\ psgRaised' = PowerSGDStateRaises(psgArgs)
    /\ psgState' = IF PowerSGDStateRaises(psgArgs) = NoException
                   THEN PowerSGDState(psgArgs) ELSE NoState

\* lines 664-665: the turn of the loop is skipped
TestSkip ==
    /\ psgPc = "loop" /\ psgInTest
    /\ Skips(psgArgs)
    /\ psgPc' = "skipped"
    /\ UNCHANGED <<psgArgs, psgInTest, psgRaised, psgState>>
    /\ UNCHANGED psgOthers

\* lines 666-677: the construction under assertRaisesRegex
TestConstruct ==
    /\ psgPc = "loop" /\ psgInTest
    /\ ~Skips(psgArgs)
    /\ Construct
    /\ psgPc' = IF AssertRaisesValueError(PowerSGDStateRaises(psgArgs))
                THEN "passed" ELSE "failed"
    /\ UNCHANGED <<psgArgs, psgInTest>>
    /\ UNCHANGED psgOthers

\* powerSGD.PowerSGDState(...) called with other settings
CallPowerSGDState ==
    /\ psgPc = "loop" /\ ~psgInTest
    /\ Construct
    /\ psgPc' = "called"
    /\ UNCHANGED <<psgArgs, psgInTest>>
    /\ UNCHANGED psgOthers

PsgNext == TestSkip \/ TestConstruct \/ CallPowerSGDState
\* The test runs alone.
PsgStart == PsgInit /\ DdpIdle /\ CkIdle /\ SeqIdle /\ WarnIdle /\ BarIdle /\ RegIdle /\ OpIdle /\ BktIdle /\ GpuIdle /\ ToIdle /\ DbgIdle /\ CtIdle /\ ExIdle /\ BfIdle
SpecPsg == PsgStart /\ [][PsgNext]_vars

\* C21: constructing PowerSGDState with start_powerSGD_iter <= 1 while
\* use_error_feedback or warm_start (or both) is enabled raises ValueError
\* 'Expect start_powerSGD_iter > 1 if use_error_feedback or
\* warm_start is enabled, ...', for every such combination of the three
\* settings; every turn of the loop of the test passes.
C21_InvalidPowerSGDState ==
    /\ psgPc # "failed"
    /\ psgPc \in {"passed", "called"}
       /\ psgArgs.start_powerSGD_iter \in {0, 1}
       /\ (psgArgs.use_error_feedback \/ psgArgs.warm_start) =>
          /\ psgRaised = ValueError(ExpectStartIter)
          /\ psgState = NoState
    /\ psgPc = "skipped" => psgRaised = NoException /\ psgState = NoState

\* C21 witness: the turn of the loop with start_powerSGD_iter = 1,
\* use_error_feedback off and warm_start on has raised the ValueError.
C21_Witness ==
    /\ psgInTest /\ psgPc = "passed"
    /\ psgArgs = [start_powerSGD_iter |-> 1, use_error_feedback |-> FALSE,
                  warm_start |-> TRUE, matrix_approximation_rank |-> 1]
    /\ psgRaised.type = "ValueError"

(***************************************************************************)
(* CommTensor: a tensor that carries the work handle of the collective     *)
(* that produces it. __torch_dispatch__ unwraps every CommTensor among     *)
(* the arguments of an operator before the operator runs: in eager mode it *)
(* waits for the work, in tracing mode it adds a wait_comm node to the     *)
(* graph. Arguments are trees: a leaf or a list of trees.                  *)
(***************************************************************************)
MaxArgs == 2
\* the leaves: a tensor has an id and a value; a CommTensor wraps the
\* tensor id with the work handle work
Plain(id, value) ==
    [kind |-> "tensor", id |-> id, work |-> 0, value |-> value, proxy |-> "", items |-> <<>>]
CommTensor(tensor, work) == [tensor EXCEPT !.kind = "CommTensor", !.work = work]
\* a list, tuple or dict of trees
List(items) ==
    [kind |-> "list", id |-> 0, work |-> 0, value |-> 0, proxy |-> "", items |-> items]
\* a number among the arguments
Scalar(value) ==
    [kind |-> "scalar", id |-> 0, work |-> 0, value |-> value, proxy |-> "", items |-> <<>>]
\* the tensor as the tracer holds it: a ProxyTensor with its proxy
ProxyTensor(tensor, proxy) == [tensor EXCEPT !.proxy = proxy]
\* the tensors and the work handles of the dispatches
Leaves == {Plain(3, 5), CommTensor(Plain(1, 4), 1), CommTensor(Plain(2, 6), 2)}
Works == {1, 2}
\* leaves, lists of up to two leaves, and a CommTensor two lists deep
Trees ==
    Leaves \cup {List(<<>>)} \cup {List(<<a>>) : a \in Leaves}
    \cup {List(<<List(<<a>>)>>) : a \in Leaves}
\* kwargs: no keyword, one keyword or a keyword holding a list
Kwargs == {List(<<>>)} \cup {List(<<a>>) : a \in Leaves} \cup {List(<<List(<<a>>)>>) : a \in Leaves}

\* tree_flatten: the leaves of a tree, from left to right
RECURSIVE Flatten(_)
Flatten(tree) ==
    IF tree.kind # "list" THEN <<tree>>
    ELSE LET RECURSIVE Over(_)
             Over(k) == IF k > Len(tree.items) THEN <<>>
                        ELSE Flatten(tree.items[k]) \o Over(k + 1)
         IN  Over(1)

\* isinstance(e, CommTensor)
IsCommTensorNever(e) == FALSE
IsCommTensor(e) == e.kind = "CommTensor"
\* isinstance(t, ProxyTensor): the tensor is one of the tracer, with a proxy
IsProxyTensor(t) == t.proxy # ""
\* lines 1365-1368: e._tensor
WrappedOf(e) == [e EXCEPT !.kind = "tensor", !.work = 0]
\* the name the graph gives the next node called name
Suffixes == <<"_1", "_2", "_3", "_4", "_5", "_6", "_7", "_8">>
NodeName(graph, name) ==
    LET n == Cardinality({k \in DOMAIN graph : graph[k].target = name})
    IN  IF n = 0 THEN name ELSE name \o Suffixes[n]

\* the leaves tree_map goes through: those of args, then those of kwargs
LeavesOf(call) == Flatten(call.args) \o Flatten(call.kwargs)
\* under make_fx every tensor is a ProxyTensor
RECURSIVE Traced(_)
Traced(tree) ==
    IF tree.kind = "list" THEN List([k \in DOMAIN tree.items |-> Traced(tree.items[k])])
    ELSE IF tree.kind = "scalar" THEN tree
    ELSE ProxyTensor(tree, "arg")

\* An operator called on trees of the process, once in each mode or twice
\* in eager mode.
GenericCalls ==
    {<<[mode |-> m[1], func |-> "op", test |-> FALSE,
        args |-> IF m[1] = "tracing" THEN Traced(List(a)) ELSE List(a),
        kwargs |-> IF m[1] = "tracing" THEN Traced(kw) ELSE kw],
       [mode |-> m[2], func |-> "op", test |-> FALSE,
        args |-> IF m[2] = "tracing" THEN Traced(List(a)) ELSE List(a),
        kwargs |-> IF m[2] = "tracing" THEN Traced(kw) ELSE kw]>> :
        m \in {<<"eager", "eager">>, <<"tracing", "eager">>},
        a \in UNION {[1 .. n -> Trees] : n \in 1 .. MaxArgs}, kw \in Kwargs}

\* lines 1413-1417, fn(x): y = x + x; work = dist.all_reduce(y, group=pg,
\* async_op=True) over world ranks holding the same x; y = CommTensor(y,
\* work); return y * 2. The dispatch of y * 2:
fn(x, world, mode, work) ==
    LET y == Plain(work, (x + x) * world)
    IN  [mode |-> mode, func |-> "mul", test |-> TRUE,
         args |-> List(<<CommTensor(IF mode = "tracing" THEN ProxyTensor(y, "add_tensor")
                                    ELSE y, work), Scalar(2)>>),
         kwargs |-> List(<<>>)]
\* lines 1419-1429: traced_fn = make_fx(fn)(xx), then y = fn(x)
TestCalls ==
    {<<fn(x, world, "tracing", 1), fn(x, world, "eager", 2)>> : x \in {1, 2, 3}, world \in {1, 2}}

NoValues == [y |-> 0, yy |-> 0]
CtInit ==
    /\ ctCalls \in GenericCalls \cup TestCalls
    /\ ctCall = 1
    /\ ctPos = 1
    /\ ctUnwrapped = <<>>
    /\ ctDone = {}
    /\ ctLog = <<>>
    /\ ctGraph = <<>>
    /\ ctPc = "unwrap"
    /\ ctValues = NoValues

\* The collective of a work handle completes.
CompleteWork ==
    /\ \E w \in Works \ ctDone : ctDone' = ctDone \cup {w}
    /\ UNCHANGED <<ctCalls, ctCall, ctPos, ctUnwrapped, ctLog, ctGraph, ctPc, ctValues>>
    /\ UNCHANGED ctOthers

Event(ev, work, args) == [ev |-> ev, work |-> work, call |-> ctCall, args |-> args]
Node(name, func, args, const) ==
    [name |-> name, target |-> func, call |-> ctCall, args |-> args, const |-> const]
\* the argument of a node that stands for leaf e
ArgOf(e) == [name |-> e.proxy, value |-> e.value]

\* line 1376, t.proxy = proxy_res: the tensor is one object, so that the
\* tensors already unwrapped that are this object have the new proxy too
SetProxy(unwrapped, id, proxy) ==
    [k \in DOMAIN unwrapped |->
        IF unwrapped[k].kind = "tensor" /\ unwrapped[k].id = id
        THEN ProxyTensor(unwrapped[k], proxy) ELSE unwrapped[k]]

\* lines 1364-1382, unwrap(e) up to the wait: a leaf that is no CommTensor
\* is returned as it is; the tensor of a CommTensor that is a ProxyTensor
\* gets a wait_comm node for proxy and is returned; for any other
\* CommTensor w.wait() is called.
Unwrap ==
    /\ ctPc = "unwrap"
    /\ ctPos <= Len(LeavesOf(ctCalls[ctCall]))
    /\ LET e == LeavesOf(ctCalls[ctCall])[ctPos]
           t == WrappedOf(e)
           name == NodeName(ctGraph, "wait_comm")
       IN  IF ~IsCommTensor(e)
           THEN /\ ctUnwrapped' = Append(ctUnwrapped, e)
                /\ ctPos' = ctPos + 1
                /\ UNCHANGED <<ctLog, ctGraph, ctPc>>
           ELSE IF IsProxyTensor(t)
           THEN /\ ctGraph' = Append(ctGraph, Node(name, "wait_comm", <<ArgOf(e)>>, e))
                /\ ctUnwrapped' = Append(SetProxy(ctUnwrapped, t.id, name),
                                         ProxyTensor(t, name))
                /\ ctPos' = ctPos + 1
                /\ UNCHANGED <<ctLog, ctPc>>
           ELSE /\ ctLog' = Append(ctLog, Event("wait", e.work, <<>>))
                /\ ctPc' = "wait"
                /\ UNCHANGED <<ctUnwrapped, ctPos, ctGraph>>
    /\ UNCHANGED <<ctCalls, ctCall, ctDone, ctValues>>
    /\ UNCHANGED ctOthers

\* lines 1380-1382: w.wait() returns when the work is done, and unwrap
\* returns the tensor
WaitReturn ==
    /\ ctPc = "wait"
    /\ LET e == LeavesOf(ctCalls[ctCall])[ctPos]
       IN  /\ e.work \in ctDone
           /\ ctLog' = Append(ctLog, Event("waited", e.work, <<>>))
           /\ ctUnwrapped' = Append(ctUnwrapped, WrappedOf(e))
    /\ ctPos' = ctPos + 1
    /\ ctPc' = "unwrap"
    /\ UNCHANGED <<ctCalls, ctCall, ctDone, ctGraph, ctValues>>
    /\ UNCHANGED ctOthers

\* the product of the values of the leaves
RECURSIVE Product(_)
Product(leaves) == IF leaves = <<>> THEN 1 ELSE leaves[1].value * Product(Tail(leaves))

\* line 1389: return func(*args, **kwargs). On ProxyTensors the operator
\* is recorded as a node of the graph, on other tensors it is run.
RunFunc ==
    /\ ctPc = "unwrap"
    /\ ctPos > Len(LeavesOf(ctCalls[ctCall]))
    /\ LET call == ctCalls[ctCall]
           name == call.func \o "_tensor"
       IN  /\ IF call.mode = "tracing"
              THEN /\ ctGraph' = Append(ctGraph,
                                        Node(name, call.func,
                                             [k \in DOMAIN ctUnwrapped |-> ArgOf(ctUnwrapped[k])],
                                             Scalar(0)))
                   /\ UNCHANGED <<ctLog, ctValues>>
              ELSE /\ ctLog' = Append(ctLog, Event("run", 0, ctUnwrapped))
                   /\ ctValues' = [ctValues EXCEPT !.y = Product(ctUnwrapped)]
                   /\ UNCHANGED ctGraph
           /\ IF ctCall < Len(ctCalls)
              THEN ctCall' = ctCall + 1 /\ ctPc' = "unwrap"
              ELSE /\ UNCHANGED ctCall
                   /\ ctPc' = IF call.test THEN "traced_fn" ELSE "end"
    /\ ctPos' = 1
    /\ ctUnwrapped' = <<>>
    /\ UNCHANGED <<ctCalls, ctDone>>
    /\ UNCHANGED ctOthers

\* The value of node k of the graph when the graph is run: wait_comm gives
\* the tensor of the CommTensor it was made for (lines 1335-1337), any
\* other node the product of its arguments, an argument being the value of
\* the node it names or its own value.
RECURSIVE ValueOfNode(_, _)
ValueOfNode(graph, k) ==
    LET node == graph[k]
        RECURSIVE Args(_)
        Args(j) ==
            IF j > Len(node.args) THEN 1
            ELSE LET a == node.args[j]
                     from == {i \in 1 .. k - 1 : graph[i].name = a.name}
                 IN  (IF from = {} THEN a.value
                      ELSE ValueOfNode(graph, CHOOSE i \in from : TRUE)) * Args(j + 1)
    IN  IF node.target = "wait_comm" THEN WrappedOf(node.const).value ELSE Args(1)

\* line 1431, yy = traced_fn(xx).elem: the graph is run; its wait_comm
\* node waits for the work of the CommTensor made during tracing.
RunTracedFn ==
    /\ ctPc = "traced_fn"
    /\ \A k \in DOMAIN ctGraph :
          ctGraph[k].target = "wait_comm" => ctGraph[k].const.work \in ctDone
    /\ ctValues' = [ctValues EXCEPT !.yy = ValueOfNode(ctGraph, Len(ctGraph))]
    /\ ctPc' = "compare"
    /\ UNCHANGED <<ctCalls, ctCall, ctPos, ctUnwrapped, ctDone, ctLog, ctGraph>>
    /\ UNCHANGED ctOthers

\* lines 1422-1425: the node mul_tensor takes wait_comm for first argument
MulUsesWaitComm(graph) ==
    \A k \in DOMAIN graph :
        graph[k].name = "mul_tensor" => graph[k].args[1].name = "wait_comm"

\* lines 1422-1425 and 1434: the assertions of the test
Compare ==
    /\ ctPc = "compare"
    /\ ctPc' = IF MulUsesWaitComm(ctGraph) /\ ctValues.y = ctValues.yy
               THEN "passed" ELSE "failed"
    /\ UNCHANGED <<ctCalls, ctCall, ctPos, ctUnwrapped, ctDone, ctLog, ctGraph, ctValues>>
    /\ UNCHANGED ctOthers

CtNext == CompleteWork \/ Unwrap \/ WaitReturn \/ RunFunc \/ RunTracedFn \/ Compare
\* The process makes its dispatches alone.
CtStart == CtInit /\ DdpIdle /\ CkIdle /\ SeqIdle /\ WarnIdle /\ BarIdle /\ RegIdle /\ OpIdle /\ BktIdle /\ GpuIdle /\ ToIdle /\ DbgIdle /\ PsgIdle /\ ExIdle /\ BfIdle
SpecCt == CtStart /\ [][CtNext]_vars


\* The positions of the leaves of dispatch c that are CommTensors
CommLeaves(c) ==
    {j \in DOMAIN LeavesOf(ctCalls[c]) : LeavesOf(ctCalls[c])[j].kind = "CommTensor"}
\* The events of the log that are the operator of an eager dispatch run
Runs == {k \in DOMAIN ctLog : ctLog[k].ev = "run"}
\* The nodes of the graph that are operators
FuncNodes == {k \in DOMAIN ctGraph : ctGraph[k].target # "wait_comm"}
\* The dispatches that have returned
Returned == {c \in DOMAIN ctCalls : c < ctCall \/ ctPc \notin {"unwrap", "wait"}}

\* In eager mode wait() was called, and had returned, on the work of each
\* CommTensor of the dispatch before the operator ran, and the operator ran
\* on the tensors wrapped.
WaitedBeforeRun(k) ==
    LET c == ctLog[k].call
        leaves == LeavesOf(ctCalls[c])
    IN  /\ Len(ctLog[k].args) = Len(leaves)
        /\ \A j \in DOMAIN leaves :
              IF j \in CommLeaves(c)
              THEN /\ ctLog[k].args[j] = WrappedOf(leaves[j])
                   /\ leaves[j].work \in ctDone
                   /\ \E i \in 1 .. k - 1, h \in 1 .. k - 1 :
                         /\ h < i
                         /\ ctLog[h] = [ev |-> "wait", work |-> leaves[j].work,
                                        call |-> c, args |-> <<>>]
                         /\ ctLog[i] = [ev |-> "waited", work |-> leaves[j].work,
                                        call |-> c, args |-> <<>>]
              ELSE ctLog[k].args[j] = leaves[j]

\* In tracing mode the operator's node takes for each CommTensor of the
\* dispatch the output of a wait_comm node made for that CommTensor.
ConsumesWaitComm(k) ==
    LET c == ctGraph[k].call
        leaves == LeavesOf(ctCalls[c])
    IN  /\ Len(ctGraph[k].args) = Len(leaves)
        /\ \A j \in DOMAIN leaves :
              IF j \in CommLeaves(c)
              THEN \E i \in 1 .. k - 1 :
                      /\ ctGraph[i].target = "wait_comm"
                      /\ ctGraph[i].const = leaves[j]
                      /\ ctGraph[i].call = c
                      /\ ctGraph[k].args[j].name = ctGraph[i].name
              ELSE ctGraph[k].args[j] = ArgOf(leaves[j])

\* C22: on every dispatch of an operator with CommTensors among its
\* arguments, at any depth, in eager mode wait() is called on the work of
\* each CommTensor before the operator runs on the tensor wrapped, and in
\* tracing mode a wait_comm node is added to the graph and the operator
\* takes its output; in the test the node of y * 2 takes wait_comm for
\* first argument and the traced function returns what the eager one does.
C22_WaitBeforeOperator ==
    /\ \A k \in Runs : WaitedBeforeRun(k)
    /\ \A k \in FuncNodes : ConsumesWaitComm(k)
    /\ \A c \in Returned :
          IF ctCalls[c].mode = "eager" THEN \E k \in Runs : ctLog[k].call = c
          ELSE \E k \in FuncNodes : ctGraph[k].call = c
    /\ ctPc # "failed"
    /\ ctPc \in {"compare", "passed"} =>
          /\ ctValues.y = ctValues.yy
          /\ \E k \in DOMAIN ctGraph :
                ctGraph[k].name = "mul_tensor" /\ ctGraph[k].args[1].name = "wait_comm"

\* The test passed: the operator of y * 2 was traced with wait_comm for
\* first argument, and ran in eager mode after the wait had returned.
C22_Witness ==
    /\ ctPc = "passed"
    /\ ctValues.y > 0
    /\ \E k \in FuncNodes : CommLeaves(ctGraph[k].call) # {}
    /\ \E k \in Runs : CommLeaves(ctLog[k].call) # {} /\ ctLog[k - 1].ev = "waited"
\* Operators of the process have returned, one traced and one run, each
\* with a CommTensor within a list of a list.
NestedDispatched ==
    /\ ctPc = "end"
    /\ \E k \in Runs : \E j \in CommLeaves(ctLog[k].call) :
          List(<<List(<<LeavesOf(ctCalls[ctLog[k].call])[j]>>)>>)
              \in {ctCalls[ctLog[k].call].args.items[i] :
                      i \in DOMAIN ctCalls[ctLog[k].call].args.items}
    /\ \E k \in FuncNodes : CommLeaves(ctGraph[k].call) # {}


\* The longest output of git ls-remote
MaxOut == 4
\* The characters of the output: those of a sha and of a ref, a blank, a
\* tab and a line feed
Whitespace == {" ", "\t", "\n"}
Chars == {"a", "f"} \cup Whitespace
Outputs == UNION {[1 .. n -> Chars] : n \in 0 .. MaxOut}
\* What the file can hold before main(): nothing, an older sha, lines
FilesBefore == {<<>>, <<"f", "a">>, <<"a", "\n", "f", "\n">>}

\* str.split() without arguments: the runs of characters that are not
\* whitespace, from left to right
RECURSIVE split(_)
split(s) ==
    IF s = <<>> THEN <<>>
    ELSE IF Head(s) \in Whitespace THEN split(Tail(s))
    ELSE LET ends == {k \in 1 .. Len(s) : k = Len(s) \/ s[k + 1] \in Whitespace}
             k == CHOOSE k \in ends : \A j \in ends : k <= j
         IN  <<SubSeq(s, 1, k)>> \o split(SubSeq(s, k + 1, Len(s)))

\* line 10, open(name, "w"): the file is created or emptied
openAppends(file) == file
open(file) == <<>>

ExInit ==
    /\ exFile \in FilesBefore
    /\ exOut = <<>>
    /\ exPc = "start"
    /\ exBuf = <<>>

\* line 10: with open("test-infra_generated-stats_branch_sha.txt", "w") as f
Open ==
    /\ exPc = "start"
    /\ exFile' = open(exFile)
    /\ exPc' = "opened"
    /\ UNCHANGED <<exOut, exBuf>>
    /\ UNCHANGED exOthers

\* lines 5-7, subprocess.check_output(command.split(" ")).decode("utf-8"):
\* git prints its output, or fails and check_output raises
\* CalledProcessError
CheckOutput ==
    /\ exPc = "opened"
    /\ \/ \E out \in Outputs : exOut' = out /\ exPc' = "got"
       \/ exOut' = <<>> /\ exPc' = "raised"
    /\ UNCHANGED <<exFile, exBuf>>
    /\ UNCHANGED exOthers

\* lines 7 and 11, f.write(....split()[0]): IndexError when the output has
\* no token
Write ==
    /\ exPc = "got"
    /\ IF split(exOut) = <<>>
       THEN exPc' = "raised" /\ UNCHANGED exBuf
       ELSE exPc' = "written" /\ exBuf' = exBuf \o split(exOut)[1]
    /\ UNCHANGED <<exFile, exOut>>
    /\ UNCHANGED exOthers

\* line 10, the end of the with block: the file is closed, what was
\* written is in the file; main() returns, or the exception goes on
Close ==
    /\ exPc \in {"written", "raised"}
    /\ exFile' = exFile \o exBuf
    /\ exBuf' = <<>>
    /\ exPc' = IF exPc = "written" THEN "done" ELSE "failed"
    /\ UNCHANGED exOut
    /\ UNCHANGED exOthers

ExNext == Open \/ CheckOutput \/ Write \/ Close
ExStart == ExInit /\ DdpIdle /\ CkIdle /\ SeqIdle /\ WarnIdle /\ BarIdle /\ RegIdle /\ OpIdle /\ BktIdle /\ GpuIdle /\ ToIdle /\ DbgIdle /\ PsgIdle /\ CtIdle /\ BfIdle
SpecEx == ExStart /\ [][ExNext]_vars

\* token is the first whitespace-delimited token of out
IsFirstToken(token, out) ==
    /\ token # <<>>
    /\ \A k \in DOMAIN token : token[k] \notin Whitespace
    /\ \E i \in DOMAIN out :
          /\ \A k \in 1 .. i - 1 : out[k] \in Whitespace
          /\ i + Len(token) - 1 <= Len(out)
          /\ SubSeq(out, i, i + Len(token) - 1) = token
          /\ i + Len(token) <= Len(out) => out[i + Len(token)] \in Whitespace

\* C23: after main() has returned, the file holds exactly the first
\* whitespace-delimited token of the output of git ls-remote and nothing
\* else, whatever it held before.
C23_FileHoldsFirstToken ==
    exPc = "done" => IsFirstToken(exFile, exOut)

\* main() has returned after git printed a token behind whitespace and
\* before more output.
C23_Witness ==
    /\ exPc = "done"
    /\ exOut = <<"\n", "f", "\t", "a">>
    /\ exFile = <<"f">>


\* The most calls the scheduler makes of benchmark_fused_nodes
MaxBenchmarks == 3
\* A latency in ms, a float: a finite number of microseconds, an infinity
\* or nan
Finite(us) == [kind |-> "finite", us |-> us]
Inf == [kind |-> "inf", us |-> 1]
NegInf == [kind |-> "inf", us |-> -1]
NaN == [kind |-> "nan", us |-> 0]
\* What the original benchmark_fused_nodes can return
Latencies == {Finite(0), Finite(20), Finite(1000), Finite(3500), Inf, NegInf, NaN}
NoMs == [kind |-> "none", us |-> 0]
\* the float 1.0
One == Finite(1000)

\* math.isinf(ms)
isinfNever(ms) == FALSE
isinf(ms) == ms.kind = "inf"

BfInit ==
    /\ bfPatched = FALSE
    /\ bfOldCalls = 0
    /\ bfEntered = 0
    /\ bfMs = NoMs
    /\ bfLog = <<>>
    /\ bfPc = "test"

\* line 72, with unittest.mock.patch.object(Scheduler,
\* "benchmark_fused_nodes", new_benchmark_fn)
PatchEnter ==
    /\ bfPc = "test"
    /\ bfPatched' = TRUE
    /\ bfPc' = "compile"
    /\ UNCHANGED <<bfOldCalls, bfEntered, bfMs, bfLog>>
    /\ UNCHANGED bfOthers

\* line 88, opt_f(*inputs): the scheduler calls
\* self.benchmark_fused_nodes(nodes), which is new_benchmark_fn
new_benchmark_fn ==
    /\ bfPc = "compile"
    /\ bfPatched
    /\ Len(bfLog) < MaxBenchmarks
    /\ bfEntered' = bfOldCalls
    /\ bfPc' = "old"
    /\ UNCHANGED <<bfPatched, bfOldCalls, bfMs, bfLog>>
    /\ UNCHANGED bfOthers

\* line 66, ms = old_benchmark_fn(scheduler, nodes)
old_benchmark_fn ==
    /\ bfPc = "old"
    /\ bfOldCalls' = bfOldCalls + 1
    /\ \E ms \in Latencies : bfMs' = ms
    /\ bfPc' = "got"
    /\ UNCHANGED <<bfPatched, bfEntered, bfLog>>
    /\ UNCHANGED bfOthers

\* lines 67-69: if not math.isinf(ms): ms = 1.0; return ms
Return ==
    /\ bfPc = "got"
    /\ bfLog' = Append(bfLog, [original |-> bfMs, calls |-> bfOldCalls - bfEntered,
                               returned |-> IF ~isinf(bfMs) THEN One ELSE bfMs])
    /\ bfMs' = NoMs
    /\ bfPc' = "compile"
    /\ UNCHANGED <<bfPatched, bfOldCalls, bfEntered>>
    /\ UNCHANGED bfOthers

\* the end of the with block of line 72: the original is put back
PatchExit ==
    /\ bfPc = "compile"
    /\ bfPatched' = FALSE
    /\ bfPc' = "done"
    /\ UNCHANGED <<bfOldCalls, bfEntered, bfMs, bfLog>>
    /\ UNCHANGED bfOthers

BfNext == PatchEnter \/ new_benchmark_fn \/ old_benchmark_fn \/ Return \/ PatchExit

BfStart == BfInit /\ DdpIdle /\ CkIdle /\ SeqIdle /\ WarnIdle /\ BarIdle /\ RegIdle /\ OpIdle /\ BktIdle /\ GpuIdle /\ ToIdle /\ DbgIdle /\ PsgIdle /\ CtIdle /\ ExIdle
SpecBf == BfStart /\ [][BfNext]_vars

\* C25: each call of the replacement calls the original
\* Scheduler.benchmark_fused_nodes exactly once, and returns 1.0 when the
\* latency the original gave is not infinite and that infinite latency
\* unchanged otherwise.
C25_LatencyOneUnlessInfinite ==
    /\ \A k \in DOMAIN bfLog :
          /\ bfLog[k].calls = 1
          /\ bfLog[k].original \notin {Inf, NegInf} => bfLog[k].returned = Finite(1000)
          /\ bfLog[k].original \in {Inf, NegInf} => bfLog[k].returned = bfLog[k].original
    /\ bfOldCalls = Len(bfLog) + (IF bfPc = "got" THEN 1 ELSE 0)

\* The replacement has returned 1.0 for a latency of 3.5 ms and for nan,
\* and inf for inf.
C25_Witness ==
    /\ bfPc = "done"
    /\ Len(bfLog) = 3
    /\ bfLog[1] = [original |-> Finite(3500), calls |-> 1, returned |-> Finite(1000)]
    /\ bfLog[2] = [original |-> Inf, calls |-> 1, returned |-> Inf]
    /\ bfLog[3] = [original |-> NaN, calls |-> 1, returned |-> Finite(1000)]

====
